---------------------------- MODULE Spec2Model ----------------------------
(***************************************************************************)
(* A model of the garnet compiler back end: SSA construction               *)
(* (convertssa.py), instruction selection (sel/riscv64.py), critical-edge  *)
(* splitting and Lengauer-Tarjan dominators (dom.py, lengauer_tarjan.py)   *)
(* and parallel-move sequencing (regalloc.py).                             *)
(*                                                                         *)
(* Each pass is a state machine of its own over one record variable; a     *)
(* specification runs one pass (or one pass followed by an interpreter of  *)
(* its output) and leaves the other records at their idle value.           *)
(***************************************************************************)
EXTENDS Integers, Sequences, FiniteSets, TLC

VARIABLES
    pm,     \* regalloc.parallelmoves and a register file its result is run on
    lt,     \* the Lengauer-Tarjan analyser over a test graph
    sc,     \* LengauerTarjan._graph / splitcrit over a procedure's CFG
    isel,   \* InsSel.munch_block over one abstract block
    conv,   \* SsaConverter: the visitor's state while it walks a program
    run,    \* an interpreter walking the CFG that SsaConverter built
    opt,    \* Optimiser.peephole over one abstract block
    ra      \* regalloc: allocate and parmove over one edge of a selected CFG

vars == <<pm, lt, sc, isel, conv, run, opt, ra>>

Idle == [pc |-> "idle"]

\* Small helpers over sequences and functions.
Range(s) == {s[i] : i \in DOMAIN s}

RECURSIVE IndexOf(_, _, _)
\* list.index(x): the first position at or after i holding x, 0 when absent.
IndexOf(s, x, i) ==
    IF i > Len(s) THEN 0
    ELSE IF s[i] = x THEN i ELSE IndexOf(s, x, i + 1)

Reverse(s) == [i \in 1..Len(s) |-> s[Len(s) + 1 - i]]

\* F applied to the value v: names an intermediate result
With(v, F(_)) == F(v)

-----------------------------------------------------------------------------
(***************************************************************************)
(* regalloc.py: parallelmoves(moves, tmp).                                 *)
(***************************************************************************)

\* Registers 0..NReg-1 may appear in moves; NReg itself is a further register
\* that only tmp can name.
NReg == 4
MaxMoves == 3

Regs == 0..(NReg - 1)
AllRegs == 0..NReg

\* A move is <<src, dst>>, as the tuples (src, dst) of the source.
MoveLists == UNION {[1..n -> Regs \X Regs] : n \in 0..MaxMoves}

DistinctDsts(moves) ==
    \A i, j \in DOMAIN moves : i # j => moves[i][2] # moves[j][2]

TmpUnused(moves, tmp) ==
    \A i \in DOMAIN moves : moves[i][1] # tmp /\ moves[i][2] # tmp

\* A faulty variant of the MOVING case: the blocked source is saved to tmp but the
\* pending move keeps reading the old source.
PmovMovingNoRedirect(st, j) ==
    [st EXCEPT !.results = Append(@, <<st.moves[j][1], st.tmp>>)]

\* case ParMove.MOVING: results.append((moves[j][0], tmp));
\*                      moves[j] = (tmp, moves[j][1])
PmovMoving(st, j) ==
    [st EXCEPT !.results = Append(@, <<st.moves[j][1], st.tmp>>),
               !.moves[j] = <<st.tmp, st.moves[j][2]>>]

RECURSIVE pmov1(_, _), pmovLoop(_, _, _)
\* the body of "for j in range(len(moves))" inside pmov1(i), from j on
pmovLoop(st, i, j) ==
    IF j > Len(st.moves) THEN st
    ELSE IF st.moves[j][1] = st.moves[i][2]
         THEN CASE st.state[j] = "NOTMOVED" -> pmovLoop(pmov1(st, j), i, j + 1)
                []   st.state[j] = "MOVING"   -> pmovLoop(PmovMoving(st, j), i, j + 1)
                []   st.state[j] = "MOVED"    -> pmovLoop(st, i, j + 1)
         ELSE pmovLoop(st, i, j + 1)

pmov1(st, i) ==
    IF st.moves[i][1] # st.moves[i][2]
    THEN LET s1 == [st EXCEPT !.state[i] = "MOVING"]
             s2 == pmovLoop(s1, i, 1)
         IN  [s2 EXCEPT !.results = Append(@, <<s2.moves[i][1], s2.moves[i][2]>>),
                        !.state[i] = "MOVED"]
    ELSE st

RECURSIVE pmovTop(_, _)
\* "for i in range(len(moves)): if state[i] == NOTMOVED: pmov1(i)"
pmovTop(st, i) ==
    IF i > Len(st.moves) THEN st
    ELSE IF st.state[i] = "NOTMOVED" THEN pmovTop(pmov1(st, i), i + 1)
         ELSE pmovTop(st, i + 1)

parallelmoves(moves, tmp) ==
    pmovTop([moves |-> moves, tmp |-> tmp,
             state |-> [i \in DOMAIN moves |-> "NOTMOVED"],
             results |-> <<>>], 1).results

\* Every register starts holding a value of its own (its number).
InitRegs == [r \in AllRegs |-> r]

PMInit ==
    /\ \E moves \in MoveLists, tmp \in AllRegs :
        /\ DistinctDsts(moves)
        /\ TmpUnused(moves, tmp)
        /\ pm = [pc |-> "call", moves |-> moves, tmp |-> tmp,
                 results |-> <<>>, regs |-> InitRegs, ip |-> 1]
    /\ lt = Idle /\ sc = Idle /\ isel = Idle /\ conv = Idle /\ run = Idle
    /\ opt = Idle /\ ra = Idle

\* movs = parallelmoves(movs, tmp)
PMCall ==
    /\ pm.pc = "call"
    /\ pm' = [pm EXCEPT !.pc = "exec",
                        !.results = parallelmoves(pm.moves, pm.tmp)]
    /\ UNCHANGED <<lt, sc, isel, conv, run, opt, ra>>

\* One emitted MV dst, src is executed on the register file.
PMStep ==
    /\ pm.pc = "exec"
    /\ pm.ip <= Len(pm.results)
    /\ pm' = [pm EXCEPT !.regs[pm.results[pm.ip][2]] = pm.regs[pm.results[pm.ip][1]],
                        !.ip = @ + 1]
    /\ UNCHANGED <<lt, sc, isel, conv, run, opt, ra>>

PMFinish ==
    /\ pm.pc = "exec"
    /\ pm.ip > Len(pm.results)
    /\ pm' = [pm EXCEPT !.pc = "done"]
    /\ UNCHANGED <<lt, sc, isel, conv, run, opt, ra>>

PMNext == PMCall \/ PMStep \/ PMFinish

SpecPM == PMInit /\ [][PMNext]_vars

\* C1: for pairwise distinct destinations and a tmp that no move names, running
\* the sequence returned by parallelmoves one move at a time leaves every
\* destination holding the value its source held before the sequence started.
C1_ParallelMovesCorrect ==
    (pm.pc = "done" /\ DistinctDsts(pm.moves) /\ TmpUnused(pm.moves, pm.tmp))
        => \A i \in DOMAIN pm.moves :
               pm.regs[pm.moves[i][2]] = InitRegs[pm.moves[i][1]]

\* A three-register cycle has been sequenced through tmp and run to the end.
C1_Witness ==
    /\ pm.pc = "done"
    /\ Len(pm.moves) = 3
    /\ \A i \in DOMAIN pm.moves : pm.moves[i][1] # pm.moves[i][2]
    /\ {pm.moves[i][1] : i \in DOMAIN pm.moves} = {pm.moves[i][2] : i \in DOMAIN pm.moves}
    /\ \E k \in DOMAIN pm.results : pm.results[k][2] = pm.tmp

-----------------------------------------------------------------------------
(***************************************************************************)
(* dom.py / lengauer_tarjan.py: dfs, find, eval, semidominators,           *)
(* idominators, run on a graph given as the test suite gives it            *)
(* (TestGraph: nverts and an edge list, root = node 0).  The two files     *)
(* hold the same algorithm; the line numbers cited are those of dom.py.    *)
(***************************************************************************)

NNodes == 4
MaxEdges == 6

Nodes == 0..(NNodes - 1)
Root == 0
\* "no such attribute / key": a node without .dfs or .parent, a missing idom entry
NoNode == -1

\* The edge lists tried: every set of at most MaxEdges edges, listed in
\* ascending order of (u, v).
EdgeSets == {E \in SUBSET (Nodes \X Nodes) : Cardinality(E) <= MaxEdges}

RECURSIVE EdgeOrder(_)
\* the nodes of S in the order in which the sorted edge list names them
EdgeOrder(S) ==
    IF S = {} THEN <<>>
    ELSE LET m == CHOOSE x \in S : \A y \in S : x <= y
         IN  <<m>> \o EdgeOrder(S \ {m})

\* TestGraph.__init__: nodes[v].preds.append(nodes[u]);
\*                     nodes[u].children.append(nodes[v])
TestGraph(E) ==
    [children |-> [u \in Nodes |-> EdgeOrder({w \in Nodes : <<u, w>> \in E})],
     preds    |-> [v \in Nodes |-> EdgeOrder({w \in Nodes : <<w, v>> \in E})]]

\* "go(u); u.parent = v": the assignment follows every call, also one that
\* returned at once because u was already seen.
dfsSetParent(st, seenBefore, u, v) ==
    [st EXCEPT !.parent[u] = v]

RECURSIVE dfsGo(_, _, _), dfsChildren(_, _, _, _)
dfsGo(children, st, v) ==
    IF st.dfs[v] # NoNode THEN st
    ELSE dfsChildren(children,
                     [st EXCEPT !.dfs[v] = Len(st.nodes), !.nodes = Append(@, v)],
                     v, 1)

dfsChildren(children, st, v, i) ==
    IF i > Len(children[v]) THEN st
    ELSE LET u == children[v][i]
             s1 == dfsGo(children, st, u)
         IN  dfsChildren(children, dfsSetParent(s1, st.dfs[u] # NoNode, u, v), v, i + 1)

\* LengauerTarjan.dfs: the numbering, the parents and dfsnodes (reversed preorder)
dfs(children) ==
    LET s0 == [dfs |-> [n \in Nodes |-> NoNode],
               parent |-> [n \in Nodes |-> NoNode],
               nodes |-> <<>>]
        s1 == dfsGo(children, s0, Root)
    IN  [dfs |-> s1.dfs,
         parent |-> [s1.parent EXCEPT ![Root] = Root],
         dfsnodes |-> Reverse(s1.nodes)]

\* Reading x.dfs of a node the search never reached raises AttributeError.
HasDfs(a, u) == a.dfs[u] # NoNode

RECURSIVE find(_, _)
\* LengauerTarjan.find(v) on analyser state a; returns [a, r].  semi is indexed
\* by dfs number and holds nodes; ancestor and label are indexed by node index.
find(a, v) ==
    LET anc == a.ancestor[v] IN
    IF anc = v THEN [a |-> a, r |-> v]
    ELSE LET f  == find(a, anc)
             a1 == f.a
             a2 == IF a1.dfs[a1.semi[a1.dfs[a1.label[anc]]]]
                        < a1.dfs[a1.semi[a1.dfs[a1.label[v]]]]
                   THEN [a1 EXCEPT !.label[v] = a1.label[anc]]
                   ELSE a1
         IN  [a |-> [a2 EXCEPT !.ancestor[v] = f.r], r |-> f.r]

\* LengauerTarjan.eval(v); returns [a, r]
eval(a, v) ==
    IF a.ancestor[v] # v
    THEN LET f == find(a, v) IN [a |-> f.a, r |-> f.a.label[v]]
    ELSE [a |-> a, r |-> v]

RECURSIVE semiPreds(_, _, _)
\* "for u in v.preds" of semidominators, from the i-th predecessor on
semiPreds(a, v, i) ==
    IF a.err # "" \/ i > Len(a.preds[v]) THEN a
    ELSE LET u == a.preds[v][i] IN
         IF ~HasDfs(a, u) THEN [a EXCEPT !.err = "AttributeError"]
         ELSE IF a.dfs[u] < a.dfs[v]
              THEN semiPreds(IF a.dfs[u] < a.dfs[a.semi[a.dfs[v]]]
                             THEN [a EXCEPT !.semi[a.dfs[v]] = u]
                             ELSE a, v, i + 1)
              ELSE LET e  == eval(a, u)
                       a1 == e.a
                       su == e.r
                   IN  semiPreds(IF a1.dfs[a1.semi[a1.dfs[su]]] < a1.dfs[a1.semi[a1.dfs[v]]]
                                 THEN [a1 EXCEPT !.semi[a1.dfs[v]] = a1.semi[a1.dfs[su]]]
                                 ELSE a1, v, i + 1)

RECURSIVE semiLoop(_, _)
\* "for v in self.dfsnodes" of semidominators, from position k on
semiLoop(a, k) ==
    IF a.err # "" \/ k > Len(a.dfsnodes) THEN a
    ELSE LET v  == a.dfsnodes[k]
             a1 == semiPreds([a EXCEPT !.semi[a.dfs[v]] = a.parent[v]], v, 1)
         IN  semiLoop(IF a1.err # "" THEN a1
                      ELSE [a1 EXCEPT !.ancestor[v] = a1.parent[v]], k + 1)

semidominators(a) ==
    semiLoop([a EXCEPT !.ancestor = [i \in Nodes |-> i],
                       !.semi = [i \in Nodes |-> i],
                       !.label = [i \in Nodes |-> i]], 1)

\* "if self.semi[w.dfs] == s_v: idom[v] = s_v  else: idom[v] = idom[w]"
idomOfEval(a, v, w) ==
    IF a.semi[a.dfs[w]] = a.semi[a.dfs[v]] THEN a.semi[a.dfs[v]] ELSE a.idom[w]

RECURSIVE idomLoop(_, _)
\* "for v in reversed(self.dfsnodes)" of idominators, from position k on
idomLoop(a, k) ==
    IF a.err # "" \/ k > Len(a.dfsnodes) THEN a
    ELSE LET v   == Reverse(a.dfsnodes)[k]
             s_v == a.semi[a.dfs[v]]
         IN  IF s_v = a.parent[v]
             THEN idomLoop([a EXCEPT !.idom[v] = s_v], k + 1)
             ELSE LET e == eval(a, v)
                      x == idomOfEval(e.a, v, e.r)
                  IN  IF x = NoNode
                      THEN [e.a EXCEPT !.err = "KeyError"]
                      ELSE idomLoop([e.a EXCEPT !.idom[v] = x], k + 1)

idominators(a) == idomLoop([a EXCEPT !.idom = [n \in Nodes |-> NoNode]], 1)

RECURSIVE dominatesWalk(_, _, _, _)
\* dominates(u, v): "while self.idom[w] != w" from w, with `left` steps to go
\* before the walk has been round a cycle that misses the root; the result
\* is TRUE, FALSE, or the exception raised ("hang" when the loop never ends)
dominatesWalk(idom, u, w, left) ==
    IF idom[w] = NoNode THEN "KeyError"
    ELSE IF idom[w] = w THEN w = u
    ELSE IF w = u THEN TRUE
    ELSE IF left = 0 THEN "hang"
    ELSE dominatesWalk(idom, u, idom[w], left - 1)

\* LengauerTarjan.dominates(u, v)
dominates(a, u, v) == dominatesWalk(a.idom, u, v, NNodes)

\* LengauerTarjan.calcbackedges: the edges (v, u) with dominates(u, v), or
\* the exception dominates raised
calcbackedges(a) ==
    With({<<v, u>> \in Nodes \X Nodes :
             v \in Range(a.dfsnodes) /\ u \in Range(a.children[v])},
         LAMBDA edges :
         IF \E e \in edges : dominates(a, e[2], e[1]) \notin BOOLEAN
         THEN [a EXCEPT !.err = CHOOSE x \in {"KeyError", "hang"} :
                          \E e \in edges : dominates(a, e[2], e[1]) = x]
         ELSE [a EXCEPT !.backedges = {e \in edges : dominates(a, e[2], e[1])}])

RECURSIVE loopPreds(_, _, _, _), loopWhile(_, _)
\* "for p in x.preds" of calcloops, from the i-th predecessor on; st holds
\* nodes and stack
loopPreds(preds, st, x, i) ==
    IF i > Len(preds[x]) THEN st
    ELSE LET p == preds[x][i]
         IN  loopPreds(preds,
                       IF p \notin st.nodes
                       THEN [nodes |-> st.nodes \cup {p}, stack |-> Append(st.stack, p)]
                       ELSE st, x, i + 1)

\* "while stack: x = stack.pop()"
loopWhile(preds, st) ==
    IF st.stack = <<>> THEN st.nodes
    ELSE loopWhile(preds,
                   loopPreds(preds,
                             [st EXCEPT !.stack = SubSeq(@, 1, Len(@) - 1)],
                             st.stack[Len(st.stack)], 1))

\* LengauerTarjan.calcloops: loops[u, v] for every back edge (v, u)
calcloops(a) ==
    [k \in {<<e[2], e[1]>> : e \in a.backedges} |->
        loopWhile(a.preds, [nodes |-> {k[1], k[2]}, stack |-> <<k[2]>>])]

RECURSIVE frontierGo(_, _)
\* frontier.go(b): self.frontier[b]
frontierGo(a, b) ==
    {y \in Range(a.children[b]) : a.idom[y] # b}
        \cup UNION {{w \in frontierGo(a, c) : a.idom[w] # b} :
                       c \in {n \in Range(a.dfsnodes) : n # b /\ a.idom[n] = b}}

\* dominators, dominatortree, frontier and result: what calcdominators
\* returns, by node; frontier.go visits the nodes below dtreeroot
result(a) ==
    With(Range(a.dfsnodes), LAMBDA seen :
         [idom |-> [v \in seen |-> a.idom[v]],
          dom |-> [v \in seen |-> {k \in seen : a.idom[k] = v}],
          dtree |-> [v \in {a.idom[n] : n \in {n \in seen : a.idom[n] # n}} |->
                       {n \in seen : a.idom[n] = v /\ n # v}],
          frontier |-> [b \in {n \in seen : dominatesWalk(a.idom, Root, n, NNodes) = TRUE}
                          |-> frontierGo(a, b)]])

\* LengauerTarjan(graph): the analyser as constructed over a test graph
LTInit ==
    /\ \E E \in EdgeSets :
         lt = [pc |-> "new", err |-> "",
               children |-> TestGraph(E).children, preds |-> TestGraph(E).preds,
               dfs |-> [n \in Nodes |-> NoNode], parent |-> [n \in Nodes |-> NoNode],
               dfsnodes |-> <<>>,
               ancestor |-> [n \in Nodes |-> n], semi |-> [n \in Nodes |-> n],
               label |-> [n \in Nodes |-> n],
               idom |-> [n \in Nodes |-> NoNode], backedges |-> {},
               loops |-> <<>>, frontier |-> <<>>]
    /\ pm = Idle /\ sc = Idle /\ isel = Idle /\ conv = Idle /\ run = Idle
    /\ opt = Idle /\ ra = Idle

LTDfs ==
    /\ lt.pc = "new"
    /\ LET d == dfs(lt.children)
       IN  lt' = [lt EXCEPT !.pc = "dfs", !.dfs = d.dfs, !.parent = d.parent,
                            !.dfsnodes = d.dfsnodes]
    /\ UNCHANGED <<pm, sc, isel, conv, run, opt, ra>>

LTSemidominators ==
    /\ lt.pc = "dfs"
    /\ LET a == semidominators(lt)
       IN  lt' = [a EXCEPT !.pc = IF a.err # "" THEN "error" ELSE "semi"]
    /\ UNCHANGED <<pm, sc, isel, conv, run, opt, ra>>

LTIdominators ==
    /\ lt.pc = "semi"
    /\ LET a == idominators(lt)
       IN  lt' = [a EXCEPT !.pc = IF a.err # "" THEN "error" ELSE "idom"]
    /\ UNCHANGED <<pm, sc, isel, conv, run, opt, ra>>

LTCalcbackedges ==
    /\ lt.pc = "idom"
    /\ LET a == calcbackedges(lt)
       IN  lt' = [a EXCEPT !.pc = IF a.err # "" THEN "error" ELSE "backedges"]
    /\ UNCHANGED <<pm, sc, isel, conv, run, opt, ra>>

LTCalcloops ==
    /\ lt.pc = "backedges"
    /\ lt' = [lt EXCEPT !.pc = "loops", !.loops = calcloops(lt)]
    /\ UNCHANGED <<pm, sc, isel, conv, run, opt, ra>>

\* dominatortree() and frontier(); calclnf, which runs between calcloops and
\* them, reads self.loops only
LTFrontier ==
    /\ lt.pc = "loops"
    /\ lt' = [lt EXCEPT !.pc = "frontier", !.frontier = result(lt).frontier]
    /\ UNCHANGED <<pm, sc, isel, conv, run, opt, ra>>

LTNext ==
    \/ LTDfs \/ LTSemidominators \/ LTIdominators \/ LTCalcbackedges
    \/ LTCalcloops \/ LTFrontier

SpecLT == LTInit /\ [][LTNext]_vars

\* Graph theory the claims are stated in (not computed by the program).
RECURSIVE ReachFrom(_, _, _)
\* the nodes reachable from the set S along children, never entering avoid
ReachFrom(children, S, avoid) ==
    LET T == S \cup {w \in Nodes \ avoid : \E u \in S : w \in Range(children[u])}
    IN  IF T = S THEN S ELSE ReachFrom(children, T, avoid)

Reachable(children) == ReachFrom(children, {Root}, {})

\* d dominates v: every path from the root to v passes through d
Dominates(children, d, v) ==
    \/ d = v
    \/ v \notin (IF d = Root THEN {} ELSE ReachFrom(children, {Root}, {d}))

\* the closest strict dominator of v # Root
TrueIdom(children, v) ==
    CHOOSE d \in Nodes \ {v} :
        /\ Dominates(children, d, v)
        /\ \A o \in Nodes \ {v} : Dominates(children, o, v) => Dominates(children, o, d)

\* the dominance frontier of b: the nodes y such that b dominates a
\* predecessor of y and does not strictly dominate y
DominanceFrontier(children, preds, b) ==
    {y \in Nodes : /\ \E p \in Range(preds[y]) : Dominates(children, b, p)
                   /\ ~(b # y /\ Dominates(children, b, y))}

\* C22: on a graph whose nodes are all reachable from the root, an edge back
\* to the root allowed, frontier() gives every node exactly its dominance
\* frontier.
C22_FrontierIsDominanceFrontier ==
    (lt.pc = "frontier" /\ Reachable(lt.children) = Nodes)
        => /\ DOMAIN lt.frontier = Nodes
           /\ \A b \in Nodes :
                lt.frontier[b] = DominanceFrontier(lt.children, lt.preds, b)

\* C21: for every back edge (v, u), loops[u, v] is exactly u, v and the
\* nodes that can reach v along a path not passing through u; for a
\* self-loop (v = u) it is exactly {u}.
C21_LoopIsNaturalLoop ==
    lt.pc = "loops"
        => \A e \in lt.backedges :
             LET v == e[1]
                 u == e[2]
             IN  lt.loops[u, v]
                   = IF v = u THEN {u}
                     ELSE {u} \cup ReachFrom(lt.preds, {v}, {u})

\* C20: on a graph whose nodes are all reachable from the root,
\* calcbackedges yields exactly the edges (v, u) for which u dominates v,
\* self-loops included.
C20_BackedgesAreDominatedEdges ==
    (lt.pc = "backedges" /\ Reachable(lt.children) = Nodes)
        => lt.backedges
             = {<<v, u>> \in Nodes \X Nodes :
                   u \in Range(lt.children[v]) /\ Dominates(lt.children, u, v)}

\* C2: on a graph whose nodes are all reachable from the root, dfs +
\* semidominators + idominators return idom[root] = root and for every other
\* node its true immediate dominator.
C2_IdomIsImmediateDominator ==
    (lt.pc \in {"idom", "error"} /\ Reachable(lt.children) = Nodes)
        => /\ lt.pc = "idom"
           /\ lt.idom[Root] = Root
           /\ \A v \in Nodes \ {Root} : lt.idom[v] = TrueIdom(lt.children, v)

\* the node from which the depth-first search first discovered u # Root: of
\* the nodes with an edge to u that were numbered before u, the one numbered
\* last (every such node is on the search path when u is discovered)
DfsTreeParent(a, u) ==
    CHOOSE v \in Nodes :
        /\ u \in Range(a.children[v]) /\ HasDfs(a, v) /\ a.dfs[v] < a.dfs[u]
        /\ \A w \in Nodes :
             (u \in Range(a.children[w]) /\ HasDfs(a, w) /\ a.dfs[w] < a.dfs[u])
                 => a.dfs[w] <= a.dfs[v]

\* C24: after dfs(), root.parent is root, and for every reachable node u
\* other than the root u.parent is the node from which u was first
\* discovered, so u.parent.dfs < u.dfs, also when further edges into u are
\* examined later.
C24_ParentIsDfsTreeParent ==
    lt.pc = "dfs"
        => /\ lt.parent[Root] = Root
           /\ \A u \in Reachable(lt.children) \ {Root} :
                /\ lt.parent[u] = DfsTreeParent(lt, u)
                /\ lt.dfs[lt.parent[u]] < lt.dfs[u]

-----------------------------------------------------------------------------
(***************************************************************************)
(* convertssa.py: SsaConverter.  The visitor walks the program in source   *)
(* order; the model takes the program one statement at a time, so that     *)
(* every program of at most MaxStmts statements nested at most MaxDepth    *)
(* deep is converted.  Blocks are numbered in the order new_block makes    *)
(* them (self.blocks); block 1 is fentry.                                  *)
(***************************************************************************)

MaxStmts == 3
MaxDepth == 2
\* statements of a program over locals only, and blocks an execution enters
MaxStmtsLocals == 4
MaxExec == 8

LocalVars == {"x", "y"}
GlobalVars == {"g"}
\* the parameter of the procedure being converted
ParamVars == {"p"}

\* self.symbols[self.current_proc].used[variable]
Declaration(v) ==
    IF v \in LocalVars THEN "LocalVar"
    ELSE IF v \in ParamVars THEN "ParamVar" ELSE "GlobalVar"

\* Values: a Param is named by its block and its position in block.params, an
\* Inst by its block and its position in block.insts.
ParamV(b, i) == [k |-> "param", b |-> b, i |-> i]
InstV(b, i) == [k |-> "inst", b |-> b, i |-> i]
\* the value a call continuation hands to the parameter of its then-block
AbstractReturnValue == [k |-> "retval", b |-> 0, i |-> 0]
NoValue == [k |-> "none", b |-> 0, i |-> 0]

\* ssa.ContEdge(target): args maps positions of the target's params to values
ContEdge(target) == [target |-> target, args |-> <<>>]

NoCont == [kind |-> "none", value |-> NoValue, edges |-> <<>>]

\* ssa.Block(): events is the record of the reads and writes of locals the
\* visitor made while this block was current (kept for the interpreter only).
Block(label) ==
    [label |-> label, params |-> 0, insts |-> <<>>, cont |-> NoCont,
     preds |-> <<>>, succs |-> <<>>, events |-> <<>>]

Inst(op, args, variable, number) ==
    [op |-> op, args |-> args, variable |-> variable, number |-> number]

\* SsaConverter.new_block; the new block is Len(st.blocks) + 1
new_block(st, addendum) ==
    [st EXCEPT !.blocks = Append(@, Block(addendum)),
               !.incomplete_params = Append(@, <<>>)]

\* Block.emit; the value emitted is InstV(b, Len(insts) + 1)
emit(st, b, inst) == [st EXCEPT !.blocks[b].insts = Append(@, inst)]

\* Block.param; the parameter made is ParamV(b, params + 1)
param(st, b) == [st EXCEPT !.blocks[b].params = @ + 1]

\* ContEdge.add_arg
ContEdgeAddArg(edge, p, value) ==
    IF p.b # edge.target THEN edge
    ELSE [edge EXCEPT !.args = (p.i :> value) @@ @]

\* Block.add_arg -> Cont.add_arg: every edge of the continuation
add_arg(st, b, p, value) ==
    [st EXCEPT !.blocks[b].cont.edges =
        [e \in DOMAIN @ |-> ContEdgeAddArg(@[e], p, value)]]

\* Block.ret
ret(st, b) ==
    IF st.blocks[b].cont.kind # "none" THEN [st EXCEPT !.err = "AssertionError"]
    ELSE [st EXCEPT !.blocks[b].cont = [kind |-> "ret", value |-> NoValue, edges |-> <<>>]]

\* Block.jump
jump(st, b, target) ==
    IF st.blocks[b].cont.kind # "none" THEN [st EXCEPT !.err = "AssertionError"]
    ELSE [st EXCEPT !.blocks[b].cont =
                        [kind |-> "jump", value |-> NoValue, edges |-> <<ContEdge(target)>>],
                    !.blocks[b].succs = Append(@, target),
                    !.blocks[target].preds = Append(@, b)]

\* Block.branch
branch(st, b, value, then, alt) ==
    IF st.blocks[b].cont.kind # "none" THEN [st EXCEPT !.err = "AssertionError"]
    ELSE [st EXCEPT !.blocks[b].cont =
                        [kind |-> "branch", value |-> value,
                         edges |-> <<ContEdge(then), ContEdge(alt)>>],
                    !.blocks[b].succs = @ \o <<then, alt>>,
                    !.blocks[then].preds = Append(@, b),
                    !.blocks[alt].preds = Append(@, b)]

\* Block.call
call(st, b, then) ==
    IF st.blocks[b].cont.kind # "none" THEN [st EXCEPT !.err = "AssertionError"]
    ELSE [st EXCEPT !.blocks[b].cont =
                        [kind |-> "call", value |-> NoValue, edges |-> <<ContEdge(then)>>],
                    !.blocks[b].succs = Append(@, then),
                    !.blocks[then].preds = Append(@, b)]

\* SsaConverter.write_variable
write_variable(st, variable, block, value) ==
    [st EXCEPT !.current_def[variable] = (block :> value) @@ @]

\* SsaConverter.set_variable
set_variable(st, variable, block, value) ==
    CASE Declaration(variable) = "LocalVar" ->
             write_variable(st, variable, block, value)
      [] Declaration(variable) = "GlobalVar" ->
             emit(st, block, Inst("STORE", <<value>>, variable, 0))
      [] OTHER -> [st EXCEPT !.err = "NotImplementedError"]

RECURSIVE read_variable(_, _, _), read_variable_recursive(_, _, _),
          add_block_args(_, _, _, _)

\* SsaConverter.read_variable; returns [st, r]
read_variable(st, variable, block) ==
    IF block \in DOMAIN st.current_def[variable]
    THEN [st |-> st, r |-> st.current_def[variable][block]]
    ELSE read_variable_recursive(st, variable, block)

\* SsaConverter.read_variable_recursive; returns [st, r]
read_variable_recursive(st, variable, block) ==
    LET p == ParamV(block, st.blocks[block].params + 1)
    IN  IF block \notin st.sealed_blocks
        THEN [st |-> write_variable(
                        [param(st, block) EXCEPT
                            !.incomplete_params[block] = Append(@, <<variable, p>>)],
                        variable, block, p),
              r |-> p]
        ELSE IF Len(st.blocks[block].preds) = 0
        THEN [st |-> [st EXCEPT !.err = "unbound local variable"], r |-> NoValue]
        ELSE IF Len(st.blocks[block].preds) = 1
        THEN With(read_variable(param(st, block), variable, st.blocks[block].preds[1]),
                  LAMBDA avalue :
             With(add_block_args(avalue.st, variable, p, 1), LAMBDA s1 :
                  [st |-> IF s1.err # "" THEN s1 ELSE set_variable(s1, variable, block, p),
                   r |-> p]))
        ELSE With(add_block_args(set_variable(param(st, block), variable, block, p),
                                 variable, p, 1), LAMBDA s2 :
                  [st |-> IF s2.err # "" THEN s2 ELSE write_variable(s2, variable, block, p),
                   r |-> p])

\* SsaConverter.add_block_args, from the i-th predecessor of param.block on
add_block_args(st, variable, p, i) ==
    IF st.err # "" \/ i > Len(st.blocks[p.b].preds) THEN st
    ELSE With(read_variable(st, variable, st.blocks[p.b].preds[i]), LAMBDA v :
              IF v.st.err # "" THEN v.st
              ELSE add_block_args(add_arg(v.st, st.blocks[p.b].preds[i], p, v.r),
                                  variable, p, i + 1))

RECURSIVE seal_items(_, _, _)
\* "for variable, param in self.incomplete_params[block].items()"
seal_items(st, block, i) ==
    IF st.err # "" \/ i > Len(st.incomplete_params[block]) THEN st
    ELSE seal_items(add_block_args(st, st.incomplete_params[block][i][1],
                                   st.incomplete_params[block][i][2], 1),
                    block, i + 1)

\* SsaConverter.seal_block
seal_block(st, block) ==
    With(seal_items(st, block, 1), LAMBDA s1 :
         IF s1.err # "" THEN s1 ELSE [s1 EXCEPT !.sealed_blocks = @ \cup {block}])

\* SsaConverter.get_variable; returns [st, r]
get_variable(st, variable, block) ==
    CASE Declaration(variable) = "ParamVar" ->
             read_variable(write_variable(param(st, 1), variable, 1,
                                          ParamV(1, st.blocks[1].params + 1)),
                           variable, block)
      [] Declaration(variable) = "LocalVar" -> read_variable(st, variable, block)
      [] OTHER ->
             [st |-> emit(st, block, Inst("LOAD", <<>>, variable, 0)),
              r |-> InstV(block, Len(st.blocks[block].insts) + 1)]

\* Expressions.  An atom is a number, an identifier or a call without
\* arguments; an expression is <<atom>> or <<atom, atom>> (a BinaryExpr).
Num == [k |-> "num", v |-> ""]
Id(v) == [k |-> "id", v |-> v]
CallF == [k |-> "call", v |-> "f"]

\* The programs tried: "full" has locals, a global and calls; "locals" has
\* only local variables, and only programs in which every read of a local
\* follows a write to it on every path; "params" is the body of a procedure
\* with the local x and the parameter p.
Atoms(lang) ==
    CASE lang = "full" -> {Num, CallF} \cup {Id(v) : v \in LocalVars \cup GlobalVars}
      [] lang = "params" -> {Num, Id("x")} \cup {Id(v) : v \in ParamVars}
      [] OTHER -> {Num} \cup {Id(v) : v \in LocalVars}

Targets(lang) ==
    CASE lang = "full" -> LocalVars \cup GlobalVars
      [] lang = "params" -> {"x"}
      [] OTHER -> LocalVars

\* The right-hand side of an assignment, or an expression statement.
Rhs(lang) == {<<a>> : a \in Atoms(lang)}

\* parse.condition: BinaryExpr(cmp, lhs, rhs).  BinaryExpr.__new__ folds a
\* comparison of two numbers into a NumberExpr, and IfStmt / IfElseStmt /
\* WhileStmt fold on a NumberExpr condition, so no such condition is visited.
\* In "full" the right operand is a number or a call.
Conds(lang) ==
    {<<a, b>> : a \in Atoms(lang), b \in (IF lang = "full" THEN {Num, CallF} ELSE Atoms(lang))}
        \ {<<Num, Num>>}

\* SsaConverter.visit_IdentExpr; returns [st, r, b].  A read of a local is
\* recorded in the block's events, and rbw notes a read of a local that some
\* path from the entry reaches without passing a write (da: the locals
\* written on every path to this point).
visit_IdentExpr(st, v, block) ==
    With(get_variable(st, v, block), LAMBDA g :
         IF v \in ParamVars /\ g.st.err = ""
         THEN [st |-> [g.st EXCEPT !.blocks[block].events = Append(@, <<"R", v, g.r>>)],
               r |-> g.r, b |-> block]
         ELSE IF v \notin LocalVars
         THEN [st |-> g.st, r |-> g.r, b |-> block]
         ELSE IF g.st.err # ""
         THEN [st |-> [g.st EXCEPT !.rbw = @ \/ v \notin st.da], r |-> g.r, b |-> block]
         ELSE [st |-> [g.st EXCEPT !.blocks[block].events = Append(@, <<"R", v, g.r>>),
                                   !.rbw = @ \/ v \notin st.da],
               r |-> g.r, b |-> block])

\* SsaConverter.visit_NumberExpr; every literal of the program is a different
\* number, so that a value identifies the write it came from
visit_NumberExpr(st, block) ==
    [st |-> [emit(st, block, Inst("CONST", <<>>, "", st.nextnum)) EXCEPT !.nextnum = @ + 1],
     r |-> InstV(block, Len(st.blocks[block].insts) + 1), b |-> block]

\* SsaConverter.visit_CallExpr (no arguments); bthen is Len(st.blocks) + 1
visit_CallExpr(st, block) ==
    With(seal_block(call(new_block(st, "cthen"), block, Len(st.blocks) + 1),
                    Len(st.blocks) + 1), LAMBDA s3 :
         LET bthen == Len(st.blocks) + 1
             p     == ParamV(bthen, s3.blocks[bthen].params + 1)
         IN  [st |-> add_arg(param(s3, bthen), block, p, AbstractReturnValue),
              r |-> p, b |-> bthen])

visitAtom(st, a, block) ==
    CASE a.k = "num" -> visit_NumberExpr(st, block)
      [] a.k = "id" -> visit_IdentExpr(st, a.v, block)
      [] a.k = "call" -> visit_CallExpr(st, block)

\* SsaConverter.visit_BinaryExpr
visit_BinaryExpr(st, e, block) ==
    With(visitAtom(st, e[1], block), LAMBDA lhs :
         IF lhs.st.err # "" THEN lhs
         ELSE With(visitAtom(lhs.st, e[2], lhs.b), LAMBDA rhs :
                   IF rhs.st.err # "" THEN rhs
                   ELSE [st |-> emit(rhs.st, rhs.b, Inst("SLT", <<lhs.r, rhs.r>>, "", 0)),
                         r |-> InstV(rhs.b, Len(rhs.st.blocks[rhs.b].insts) + 1),
                         b |-> rhs.b]))

visitExpr(st, e, block) ==
    IF Len(e) = 1 THEN visitAtom(st, e[1], block) ELSE visit_BinaryExpr(st, e, block)

\* SsaConverter.visit_AssignExpr; a write of a local is recorded in the
\* block's events
visit_AssignExpr(st, target, e, block) ==
    With(visitExpr(st, e, block), LAMBDA v :
         IF v.st.err # "" THEN v
         ELSE IF target \in LocalVars
         THEN [st |-> [set_variable(v.st, target, v.b, v.r) EXCEPT
                          !.blocks[v.b].events = Append(@, <<"W", target, v.r>>),
                          !.da = @ \cup {target}],
               r |-> v.r, b |-> v.b]
         ELSE [st |-> set_variable(v.st, target, v.b, v.r), r |-> v.r, b |-> v.b])

\* A frame of the visitor's recursion: the statement being visited, the
\* blocks it made, and the locals written on every path (da) where it began.
Frame(kind, header, exit, alt, da) ==
    [kind |-> kind, header |-> header, exit |-> exit, alt |-> alt, da |-> da, da2 |-> {}]

\* An exception ends the conversion.
Raise(st) == IF st.err # "" THEN [st EXCEPT !.pc = "error"] ELSE st

\* The visitor comes to the next piece of the program: prog is the program
\* read so far, left the number of statements that may still follow.
Consume(st, token, cost) ==
    [st EXCEPT !.prog = Append(@, token), !.left = @ - cost]

\* the program read so far is a program of the language
InLanguage(st) == st.lang = "locals" => ~st.rbw

Top(st) == st.stack[Len(st.stack)]

Pop(st) == [st EXCEPT !.stack = SubSeq(@, 1, Len(@) - 1)]

NewConverter(lang) ==
    [pc |-> "new", err |-> "", lang |-> lang, prog |-> <<>>,
     blocks |-> <<>>, current_def |-> [v \in LocalVars \cup ParamVars |-> <<>>],
     incomplete_params |-> <<>>, sealed_blocks |-> {},
     cur |-> 0, stack |-> <<>>,
     left |-> IF lang = "locals" THEN MaxStmtsLocals ELSE MaxStmts, nextnum |-> 1,
     da |-> {}, rbw |-> FALSE]

\* SsaConverter(symbols) for a program with locals, a global and calls
SSAInit ==
    /\ conv = NewConverter("full")
    /\ pm = Idle /\ lt = Idle /\ sc = Idle /\ isel = Idle /\ run = Idle
    /\ opt = Idle /\ ra = Idle

\* convert: bbody = new_block('fentry'); seal_block(bbody); visit(prog, bbody)
ConvertStart ==
    /\ conv.pc = "new"
    /\ conv' = [seal_block(new_block(conv, "fentry"), 1) EXCEPT !.pc = "running", !.cur = 1]
    /\ UNCHANGED <<pm, lt, sc, isel, run, opt, ra>>

\* visit_ExprStmt of an assignment (t := e) or of a bare expression (t = "")
visit_ExprStmt(s0, t, e) ==
    With(IF t = "" THEN visitExpr(s0, e, s0.cur) ELSE visit_AssignExpr(s0, t, e, s0.cur),
         LAMBDA v : [v.st EXCEPT !.cur = v.b])

VisitExprStmt ==
    /\ conv.pc = "running" /\ conv.left > 0
    /\ \E t \in Targets(conv.lang) \cup {""}, e \in Rhs(conv.lang) :
         conv' = Raise(visit_ExprStmt(Consume(conv, <<"expr", t, e>>, 1), t, e))
    /\ InLanguage(conv')
    /\ UNCHANGED <<pm, lt, sc, isel, run, opt, ra>>

\* visit_IfStmt up to the visit of the body; bthen and bexit are the two
\* blocks made first
visit_IfStmt_begin(s0, e) ==
    With(visitExpr(new_block(new_block(s0, "ithen"), "iexit"), e, s0.cur), LAMBDA c :
         LET bthen == Len(s0.blocks) + 1
             bexit == Len(s0.blocks) + 2
         IN  IF c.st.err # "" THEN c.st
             ELSE [seal_block(branch(c.st, c.b, c.r, bthen, bexit), bthen) EXCEPT
                      !.cur = bthen,
                      !.stack = Append(@, Frame("if", 0, bexit, 0, c.st.da))])

BeginIf ==
    /\ conv.pc = "running" /\ conv.left > 0 /\ Len(conv.stack) < MaxDepth
    /\ \E e \in Conds(conv.lang) :
         conv' = Raise(visit_IfStmt_begin(Consume(conv, <<"if", e>>, 1), e))
    /\ InLanguage(conv')
    /\ UNCHANGED <<pm, lt, sc, isel, run, opt, ra>>

\* visit_IfStmt after the body: bthenend.jump(bexit); seal_block(bexit)
visit_IfStmt_end(s0, f) ==
    Pop([seal_block(jump(s0, s0.cur, f.exit), f.exit) EXCEPT !.cur = f.exit, !.da = f.da])

EndIf ==
    /\ conv.pc = "running" /\ conv.stack # <<>>
    /\ Top(conv).kind = "if"
    /\ conv' = Raise(visit_IfStmt_end(Consume(conv, <<"endif">>, 0), Top(conv)))
    /\ InLanguage(conv')
    /\ UNCHANGED <<pm, lt, sc, isel, run, opt, ra>>

\* visit_IfElseStmt up to the visit of the body
visit_IfElseStmt_begin(s0, e) ==
    With(visitExpr(new_block(new_block(new_block(s0, "ethen"), "ealt"), "eexit"), e, s0.cur),
         LAMBDA c :
         LET bthen == Len(s0.blocks) + 1
             balt  == Len(s0.blocks) + 2
             bexit == Len(s0.blocks) + 3
         IN  IF c.st.err # "" THEN c.st
             ELSE [seal_block(branch(c.st, c.b, c.r, bthen, balt), bthen) EXCEPT
                      !.cur = bthen,
                      !.stack = Append(@, Frame("then", 0, bexit, balt, c.st.da))])

BeginIfElse ==
    /\ conv.pc = "running" /\ conv.left > 0 /\ Len(conv.stack) < MaxDepth
    /\ \E e \in Conds(conv.lang) :
         conv' = Raise(visit_IfElseStmt_begin(Consume(conv, <<"ifelse", e>>, 1), e))
    /\ InLanguage(conv')
    /\ UNCHANGED <<pm, lt, sc, isel, run, opt, ra>>

\* visit_IfElseStmt between body and alt: bthenend.jump(bexit); seal_block(balt)
visit_IfElseStmt_else(s0, f) ==
    [seal_block(jump(s0, s0.cur, f.exit), f.alt) EXCEPT
        !.cur = f.alt, !.da = f.da,
        !.stack[Len(s0.stack)].kind = "else",
        !.stack[Len(s0.stack)].da2 = s0.da]

Else ==
    /\ conv.pc = "running" /\ conv.stack # <<>>
    /\ Top(conv).kind = "then"
    /\ conv' = Raise(visit_IfElseStmt_else(Consume(conv, <<"else">>, 0), Top(conv)))
    /\ InLanguage(conv')
    /\ UNCHANGED <<pm, lt, sc, isel, run, opt, ra>>

\* visit_IfElseStmt after alt: baltend.jump(bexit); seal_block(bexit)
visit_IfElseStmt_end(s0, f) ==
    Pop([seal_block(jump(s0, s0.cur, f.exit), f.exit) EXCEPT
            !.cur = f.exit, !.da = f.da2 \cap s0.da])

EndIfElse ==
    /\ conv.pc = "running" /\ conv.stack # <<>>
    /\ Top(conv).kind = "else"
    /\ conv' = Raise(visit_IfElseStmt_end(Consume(conv, <<"endifelse">>, 0), Top(conv)))
    /\ InLanguage(conv')
    /\ UNCHANGED <<pm, lt, sc, isel, run, opt, ra>>

\* visit_WhileStmt up to the visit of the body; bheader is rebound to the
\* block in which the visit of the condition ended (c.b)
visit_WhileStmt_begin(s0, e) ==
    With(visitExpr(jump(new_block(new_block(new_block(s0, "wheader"), "wbody"), "wexit"),
                        s0.cur, Len(s0.blocks) + 1),
                   e, Len(s0.blocks) + 1), LAMBDA c :
         LET bbody == Len(s0.blocks) + 2
             bexit == Len(s0.blocks) + 3
         IN  IF c.st.err # "" THEN c.st
             ELSE [seal_block(branch(c.st, c.b, c.r, bbody, bexit), bbody) EXCEPT
                      !.cur = bbody,
                      !.stack = Append(@, Frame("while", c.b, bexit, 0, c.st.da))])

BeginWhile ==
    /\ conv.pc = "running" /\ conv.left > 0 /\ Len(conv.stack) < MaxDepth
    /\ \E e \in Conds(conv.lang) :
         conv' = Raise(visit_WhileStmt_begin(Consume(conv, <<"while", e>>, 1), e))
    /\ InLanguage(conv')
    /\ UNCHANGED <<pm, lt, sc, isel, run, opt, ra>>

\* A faulty variant of visit_WhileStmt_end: the header is sealed before the back edge
\* is added.
visit_WhileStmt_end_sealfirst(s0, f) ==
    With(jump(seal_block(s0, f.header), s0.cur, f.header), LAMBDA s2 :
         IF s2.err # "" THEN s2
         ELSE Pop([seal_block(s2, f.exit) EXCEPT !.cur = f.exit, !.da = f.da]))

\* visit_WhileStmt after the body: bbodyend.jump(bheader);
\* seal_block(bheader); seal_block(bexit)
visit_WhileStmt_end(s0, f) ==
    With(seal_block(jump(s0, s0.cur, f.header), f.header), LAMBDA s2 :
         IF s2.err # "" THEN s2
         ELSE Pop([seal_block(s2, f.exit) EXCEPT !.cur = f.exit, !.da = f.da]))

EndWhile ==
    /\ conv.pc = "running" /\ conv.stack # <<>>
    /\ Top(conv).kind = "while"
    /\ conv' = Raise(visit_WhileStmt_end(Consume(conv, <<"endwhile">>, 0), Top(conv)))
    /\ InLanguage(conv')
    /\ UNCHANGED <<pm, lt, sc, isel, run, opt, ra>>

\* visit_LoopStmt up to the visit of the body
visit_LoopStmt_begin(s0) ==
    LET bbody == Len(s0.blocks) + 1
        bexit == Len(s0.blocks) + 2
    IN  [jump(new_block(new_block(s0, "lbody"), "lexit"), s0.cur, bbody) EXCEPT
            !.cur = bbody,
            !.stack = Append(@, Frame("loop", bbody, bexit, 0, s0.da))]

BeginLoop ==
    /\ conv.pc = "running" /\ conv.left > 0 /\ Len(conv.stack) < MaxDepth
    /\ conv' = Raise(visit_LoopStmt_begin(Consume(conv, <<"loop">>, 1)))
    /\ InLanguage(conv')
    /\ UNCHANGED <<pm, lt, sc, isel, run, opt, ra>>

\* visit_LoopStmt after the body: bbodyend.jump(bbody); seal_block(bbody);
\* seal_block(bexit).  No path leaves the loop, so what follows it is reached
\* by no path (da: every local).
visit_LoopStmt_end(s0, f) ==
    With(seal_block(jump(s0, s0.cur, f.header), f.header), LAMBDA s2 :
         IF s2.err # "" THEN s2
         ELSE Pop([seal_block(s2, f.exit) EXCEPT !.cur = f.exit, !.da = LocalVars]))

EndLoop ==
    /\ conv.pc = "running" /\ conv.stack # <<>>
    /\ Top(conv).kind = "loop"
    /\ conv' = Raise(visit_LoopStmt_end(Consume(conv, <<"endloop">>, 0), Top(conv)))
    /\ InLanguage(conv')
    /\ UNCHANGED <<pm, lt, sc, isel, run, opt, ra>>

\* convert after the visit: bexit = new_block('fexit'); bbodyend.jump(bexit);
\* seal_block(bexit); bexit.ret()
convert_end(s0) ==
    With(seal_block(jump(new_block(s0, "fexit"), s0.cur, Len(s0.blocks) + 1),
                    Len(s0.blocks) + 1), LAMBDA s3 :
         IF s3.err # "" THEN s3
         ELSE [ret(s3, Len(s0.blocks) + 1) EXCEPT !.pc = "done", !.cur = Len(s0.blocks) + 1])

ConvertFinish ==
    /\ conv.pc = "running" /\ conv.stack = <<>>
    /\ conv' = Raise(convert_end(conv))
    /\ InLanguage(conv')
    /\ UNCHANGED <<pm, lt, sc, isel, run, opt, ra>>

SSANext ==
    \/ ConvertStart \/ VisitExprStmt
    \/ BeginIf \/ EndIf
    \/ BeginIfElse \/ Else \/ EndIfElse
    \/ BeginWhile \/ EndWhile
    \/ BeginLoop \/ EndLoop
    \/ ConvertFinish

SpecSSA == SSAInit /\ [][SSANext]_vars

\* SsaConverter(symbols) for the body of a procedure with a parameter
SSAParamInit ==
    /\ conv = NewConverter("params")
    /\ pm = Idle /\ lt = Idle /\ sc = Idle /\ isel = Idle /\ run = Idle
    /\ opt = Idle /\ ra = Idle

SpecSSAParam == SSAParamInit /\ [][SSANext]_vars

\* The control-flow graph of the procedure built.
BlockIds == 1..Len(conv.blocks)

RECURSIVE CfgReach(_, _)
\* the blocks reachable from the set S along succs, never entering avoid
CfgReach(S, avoid) ==
    LET T == S \cup {w \in BlockIds \ avoid : \E u \in S : w \in Range(conv.blocks[u].succs)}
    IN  IF T = S THEN S ELSE CfgReach(T, avoid)

\* d dominates b: every path from fentry to b passes through d
CfgDominates(d, b) ==
    \/ d = b
    \/ b \notin (IF d = 1 THEN {} ELSE CfgReach({1}, {d}))

\* value is defined in block P or in a block that dominates P; the return
\* value of a call is defined by P's call continuation
DefinedFor(value, P) ==
    \/ value = AbstractReturnValue /\ conv.blocks[P].cont.kind = "call"
    \/ value.k \in {"param", "inst"} /\ CfgDominates(value.b, P)

C26_RepeatedReadsSameValue ==
    conv.pc \in {"running", "done"} =>
        /\ \A b \in BlockIds :
             LET ev == conv.blocks[b].events
             IN  \A i, j \in DOMAIN ev :
                   (/\ i < j
                    /\ ev[i][1] = "R" /\ ev[j][1] = "R" /\ ev[i][2] = ev[j][2]
                    /\ \A k \in (i + 1)..(j - 1) :
                          ~(ev[k][1] = "W" /\ ev[k][2] = ev[i][2]))
                       => ev[i][3] = ev[j][3]
        /\ (\E b \in BlockIds : \E i \in DOMAIN conv.blocks[b].events :
               conv.blocks[b].events[i][1] = "R"
                   /\ conv.blocks[b].events[i][2] \in ParamVars)
              => conv.blocks[1].params = Cardinality(ParamVars)

\* C9: after convert() every block but the entry block has at least one
\* predecessor.
C9_NoBlockWithoutPredecessor ==
    conv.pc = "done" =>
        \A B \in BlockIds \ {1} : Len(conv.blocks[B].preds) >= 1

\* C10: convert() raises the unbound-local error exactly when some path from
\* the entry reaches a read of a local without passing a write to it.
C10_UnboundErrorIffReadBeforeWrite ==
    conv.pc \in {"done", "error"} =>
        ((conv.pc = "error" /\ conv.err = "unbound local variable") <=> conv.rbw)

-----------------------------------------------------------------------------
(***************************************************************************)
(* An execution of the procedure that convert() built from a program over  *)
(* locals: blocks are entered one after the other from fentry, each block  *)
(* parameter is bound from the argument map of the edge taken, and every   *)
(* read the visitor made is compared with the most recent executed write   *)
(* of the source program (mem).  Which edge of a branch is taken is left   *)
(* open, so that every path is executed.                                   *)
(***************************************************************************)

\* the value of a name that nothing defined, and of a local never written
Undefined == -1

Eval(env, v) == IF v \in DOMAIN env THEN env[v] ELSE Undefined

InstValue(env, inst) ==
    CASE inst.op = "CONST" -> inst.number
      [] inst.op = "SLT" ->
            IF Eval(env, inst.args[1]) < Eval(env, inst.args[2]) THEN 1 ELSE 0
      [] OTHER -> Undefined

RECURSIVE execInsts(_, _, _, _)
\* the instructions of block b in program order, from the i-th on
execInsts(env, b, insts, i) ==
    IF i > Len(insts) THEN env
    ELSE execInsts((InstV(b, i) :> InstValue(env, insts[i])) @@ env, b, insts, i + 1)

RECURSIVE execEvents(_, _, _)
\* the reads and writes of locals made in the block, in source order: a write
\* sets mem, a read must see mem; phi notes a read answered by a parameter of
\* a block with several predecessors
execEvents(r, events, i) ==
    IF i > Len(events) THEN r
    ELSE IF events[i][1] = "W"
    THEN execEvents([r EXCEPT !.mem[events[i][2]] = Eval(r.env, events[i][3])], events, i + 1)
    ELSE execEvents([r EXCEPT
                        !.ok = @ /\ Eval(r.env, events[i][3]) # Undefined
                                 /\ Eval(r.env, events[i][3]) = r.mem[events[i][2]],
                        !.phi = @ \/ (events[i][3].k = "param"
                                      /\ Len(conv.blocks[events[i][3].b].preds) > 1)],
                    events, i + 1)

\* the parameters of the target bound from the argument map of the edge
BindParams(env, edge, nparams) ==
    [v \in {ParamV(edge.target, p) : p \in 1..nparams} |->
        IF v.i \in DOMAIN edge.args THEN Eval(env, edge.args[v.i]) ELSE Undefined] @@ env

\* one block: its instructions, its reads and writes, then the k-th edge of
\* its continuation
execBlock(r, blk, k) ==
    With(execEvents([r EXCEPT !.env = execInsts(r.env, r.block, blk.insts, 1)],
                    blk.events, 1), LAMBDA r1 :
         IF blk.cont.kind = "ret" THEN [r1 EXCEPT !.pc = "halted"]
         ELSE [r1 EXCEPT !.block = blk.cont.edges[k].target,
                         !.steps = @ + 1,
                         !.env = BindParams(r1.env, blk.cont.edges[k],
                                            conv.blocks[blk.cont.edges[k].target].params)])

\* SsaConverter(symbols) for a program over locals only
RunInit ==
    /\ conv = NewConverter("locals")
    /\ pm = Idle /\ lt = Idle /\ sc = Idle /\ isel = Idle /\ run = Idle
    /\ opt = Idle /\ ra = Idle

RunStart ==
    /\ conv.pc = "done" /\ run.pc = "idle"
    /\ run' = [pc |-> "running", block |-> 1, steps |-> 1, env |-> <<>>,
               mem |-> [v \in LocalVars |-> Undefined], ok |-> TRUE, phi |-> FALSE]
    /\ UNCHANGED <<pm, lt, sc, isel, conv, opt, ra>>

RunBlock ==
    /\ run.pc = "running" /\ run.steps <= MaxExec
    /\ \E k \in 1..Len(conv.blocks[run.block].succs) \cup {1} :
         /\ k = 1 \/ k <= Len(conv.blocks[run.block].cont.edges)
         /\ run' = execBlock(run, conv.blocks[run.block], k)
    /\ UNCHANGED <<pm, lt, sc, isel, conv, opt, ra>>

RunNext ==
    \/ ConvertStart \/ VisitExprStmt
    \/ BeginIf \/ EndIf
    \/ BeginIfElse \/ Else \/ EndIfElse
    \/ BeginWhile \/ EndWhile
    \/ ConvertFinish
    \/ RunStart \/ RunBlock

SpecRun == RunInit /\ [][RunNext]_vars

\* C4: for a program over locals built from assignments, if, if-else and
\* while in which every read follows a write on every path, every read made
\* while executing the CFG sees the value of the most recent executed write
\* to that variable, and no block holds a LOAD or a STORE of a local.
C4_ReadsSeeMostRecentWrite ==
    (conv.lang = "locals" /\ conv.pc = "done" /\ ~conv.rbw) =>
        /\ run.pc \in {"running", "halted"} => run.ok
        /\ \A b \in BlockIds : \A i \in DOMAIN conv.blocks[b].insts :
              ~(conv.blocks[b].insts[i].op \in {"LOAD", "STORE"}
                /\ conv.blocks[b].insts[i].variable \in LocalVars)

\* an execution of a program whose only compound statement is a while with
\* an assignment in its body went round the loop (six blocks entered), read
\* a local from a parameter of a block with two predecessors, and halted
C4_Witness ==
    /\ conv.lang = "locals" /\ conv.pc = "done" /\ ~conv.rbw
    /\ run.pc = "halted" /\ run.ok /\ run.phi
    /\ run.steps >= 6
    /\ \E i, j \in DOMAIN conv.prog :
          /\ i < j
          /\ conv.prog[i][1] = "while" /\ conv.prog[j][1] = "expr"
          /\ conv.prog[j][2] \in LocalVars
          /\ \A m \in i..j : conv.prog[m][1] # "endwhile"
          /\ \A m \in DOMAIN conv.prog :
                conv.prog[m][1] \in {"expr", "endwhile"} \/ m = i

-----------------------------------------------------------------------------
(***************************************************************************)
(* sel/riscv64.py: InsSel.munch_block on one abstract block.  The block    *)
(* under selection is block 1 (one parameter); blocks 2 and 3 are the      *)
(* targets of its continuation (one parameter each).  The block is built   *)
(* with the ssa.abstract API and then selected.                            *)
(***************************************************************************)

MaxInsts == 3

SelVars == {"g", "h"}
SelConsts == {1, 2}

\* operands of RV64 SSA instructions (ssa/riscv64.py)
Imm(imm) == [k |-> "imm", imm |-> imm]
Sym(sym) == [k |-> "sym", sym |-> sym]
Off(reg, off) == [k |-> "off", reg |-> reg, off |-> off]

\* sr.Inst(opcode, args): a new object, told apart by id
RvInst(id, opcode, args) == [k |-> "rv", id |-> id, opcode |-> opcode, args |-> args]

\* the values an instruction emitted now may use: the block's parameter and
\* the instructions emitted so far that produce a value
SelValues(blk) ==
    {ParamV(1, 1)} \cup {InstV(1, i) : i \in {j \in DOMAIN blk.insts : blk.insts[j].op # "STORE"}}

\* Inst.const, Inst.load, Inst.store, Inst.binary(Opcode.ADD, ...)
SelInsts(blk) ==
    {Inst("CONST", <<>>, "", c) : c \in SelConsts}
    \cup {Inst("LOAD", <<>>, v, 0) : v \in SelVars}
    \cup {Inst("STORE", <<a>>, v, 0) : a \in SelValues(blk), v \in SelVars}
    \cup {Inst("ADD", <<a, b>>, "", 0) : a \in SelValues(blk), b \in SelValues(blk)}

\* the state of InsSel during munch_block: done and result are the fields of
\* the abstract values, args the local dictionary of munch_block
NewMunch ==
    [done |-> {}, result |-> <<>>, args |-> <<>>, output |-> <<>>, outputs |-> <<>>,
     next |-> 1]

\* sr.Inst.unary / sr.Inst.binary made by a tile: returns [m, r]
Tile(m, opcode, args) ==
    [m |-> [m EXCEPT !.next = @ + 1], r |-> RvInst(m.next, opcode, args)]

\* self.output.append(inst)
Output(m, inst) == [m EXCEPT !.output = Append(@, inst)]

\* the abstract opcodes with a tile for a constant right operand, and the
\* RV64 opcode of that tile: case sa.Add(e0, sa.Const(c1)) and the like
ImmOps == {"ADD", "SUB", "SRA", "SRL", "SLL"}
ImmOpcode(op) == IF op \in {"ADD", "SUB"} THEN "ADDI" ELSE op \o "I"

\* the pattern sa.Const(c) matches the value
IsConst(insts, v) == v.k = "inst" /\ insts[v.i].op = "CONST"

RECURSIVE munch_expr(_, _, _), do_munch_expr(_, _, _)

\* InsSel.do_munch_expr; returns [m, r]
do_munch_expr(m, insts, value) ==
    IF value.k = "param" THEN [m |-> m, r |-> value]
    ELSE With(insts[value.i], LAMBDA inst :
         CASE inst.op = "CONST" -> Tile(m, "LI", <<Imm(inst.number)>>)
           [] inst.op \in ImmOps /\ IsConst(insts, inst.args[2]) ->
                With(munch_expr(m, insts, inst.args[1]), LAMBDA v0 :
                     Tile(v0.m, ImmOpcode(inst.op),
                          <<v0.r, Imm(IF inst.op = "SUB"
                                      THEN -insts[inst.args[2].i].number
                                      ELSE insts[inst.args[2].i].number)>>))
           [] inst.op \in ImmOps /\ ~IsConst(insts, inst.args[2]) ->
                With(munch_expr(m, insts, inst.args[1]), LAMBDA v0 :
                With(munch_expr(v0.m, insts, inst.args[2]), LAMBDA v1 :
                     Tile(v1.m, inst.op, <<v0.r, v1.r>>)))
           [] inst.op = "STORE" ->
                With(munch_expr(m, insts, inst.args[1]), LAMBDA v :
                With(Tile(v.m, "LA", <<Sym(inst.variable)>>), LAMBDA a :
                     Tile(Output(a.m, a.r), "SD", <<v.r, Off(a.r, Imm(0))>>)))
           [] inst.op = "LOAD" ->
                With(Tile(m, "LA", <<Sym(inst.variable)>>), LAMBDA a :
                     Tile(Output(a.m, a.r), "LD", <<Off(a.r, Imm(0))>>)))

\* InsSel.munch_expr; returns [m, r]
munch_expr(m, insts, value) ==
    IF value.k # "param" /\ value \in m.done
    THEN [m |-> m, r |-> m.result[value]]
    ELSE With(do_munch_expr(m, insts, value), LAMBDA d :
         [m |-> [d.m EXCEPT !.done = @ \cup {value},
                            !.result = (value :> d.r) @@ @,
                            !.output = IF d.r.k = "param" THEN @ ELSE Append(@, d.r)],
          r |-> d.r])

\* Cont.args: the values on the edges of the continuation
ContArgs(cont) ==
    UNION {Range(cont.edges[e].args) : e \in DOMAIN cont.edges}

\* the orders in which the frozenset S may be iterated
Orders(S) ==
    {o \in [1..Cardinality(S) -> S] : \A i, j \in DOMAIN o : o[i] = o[j] => i = j}

RECURSIVE munchArgs(_, _, _, _)
\* munch_block: for arg in block.cont.args, from the i-th of the order on
munchArgs(m, insts, order, i) ==
    IF i > Len(order) THEN m
    ELSE With(munch_expr([m EXCEPT !.output = <<>>], insts, order[i]), LAMBDA a :
         munchArgs([a.m EXCEPT !.args = (order[i] :> a.r) @@ @,
                               !.outputs = Append(@, a.m.output)],
                   insts, order, i + 1))

\* A faulty variant of iseffectful: the answer of Value.iseffectful for
\* every instruction.
iseffectfulNever(inst) == FALSE

\* StoreInst.iseffectful / Inst.iseffectful
iseffectful(inst) == inst.op = "STORE"

RECURSIVE munchEffects(_, _, _)
\* munch_block: for inst in reversed(block.insts), from the i-th down
munchEffects(m, insts, i) ==
    IF i < 1 THEN m
    ELSE IF ~iseffectful(insts[i]) THEN munchEffects(m, insts, i - 1)
    ELSE With(munch_expr([m EXCEPT !.output = <<>>], insts, InstV(1, i)), LAMBDA s :
         munchEffects([s.m EXCEPT !.outputs = Append(@, s.m.output)], insts, i - 1))

\* munch_block: the branch value is munched last and its output list is put
\* in front of the others
munchBranch(m, insts, cont) ==
    IF cont.kind # "branch" THEN [m |-> m, r |-> NoValue]
    ELSE With(munch_expr([m EXCEPT !.output = <<>>], insts, cont.value), LAMBDA v :
         [m |-> [v.m EXCEPT !.outputs = <<v.m.output>> \o @], r |-> v.r])

RECURSIVE Flatten(_, _)
\* [a for b in ss for a in b], from the i-th list on
Flatten(ss, i) == IF i > Len(ss) THEN <<>> ELSE ss[i] \o Flatten(ss, i + 1)

\* the new continuation: same targets, each edge's arguments looked up in args
SelCont(cont, args, value) ==
    [kind |-> cont.kind, value |-> value,
     edges |-> [e \in DOMAIN cont.edges |->
                  [target |-> cont.edges[e].target,
                   args |-> [p \in DOMAIN cont.edges[e].args |->
                               args[cont.edges[e].args[p]]]]]]

\* InsSel.munch_block for a frozenset iteration order of block.cont.args
munch_block(blk, order) ==
    With(munchBranch(munchEffects(munchArgs(NewMunch, blk.insts, order, 1),
                                  blk.insts, Len(blk.insts)),
                     blk.insts, blk.cont), LAMBDA b :
         [label |-> blk.label, params |-> blk.params,
          insts |-> Flatten(Reverse(b.m.outputs), 1),
          cont |-> SelCont(blk.cont, b.m.args, b.r),
          preds |-> blk.preds, succs |-> blk.succs])

\* sa.Block('b') with one parameter, and two blocks to jump to
SelInit ==
    /\ isel = [pc |-> "build", err |-> "",
               blocks |-> <<[Block("b") EXCEPT !.params = 1],
                            [Block("t") EXCEPT !.params = 1],
                            [Block("u") EXCEPT !.params = 1]>>]
    /\ pm = Idle /\ lt = Idle /\ sc = Idle /\ conv = Idle /\ run = Idle
    /\ opt = Idle /\ ra = Idle

\* block.emit(Inst...)
SelEmit ==
    /\ isel.pc = "build" /\ Len(isel.blocks[1].insts) < MaxInsts
    /\ \E inst \in SelInsts(isel.blocks[1]) : isel' = emit(isel, 1, inst)
    /\ UNCHANGED <<pm, lt, sc, conv, run, opt, ra>>

\* block.ret()
SelRet ==
    /\ isel.pc = "build"
    /\ isel' = [ret(isel, 1) EXCEPT !.pc = "built"]
    /\ UNCHANGED <<pm, lt, sc, conv, run, opt, ra>>

\* an argument for parameter p of a target, or none
SelAddArg(st, p, a) == IF a = NoValue THEN st ELSE add_arg(st, 1, p, a)

\* block.jump(t); block.add_arg(p, a)
SelJump ==
    /\ isel.pc = "build"
    /\ \E a \in SelValues(isel.blocks[1]) \cup {NoValue} :
         isel' = [SelAddArg(jump(isel, 1, 2), ParamV(2, 1), a) EXCEPT !.pc = "built"]
    /\ UNCHANGED <<pm, lt, sc, conv, run, opt, ra>>

\* block.branch(value, t, u); block.add_arg(pt, a); block.add_arg(pu, b)
SelBranch ==
    /\ isel.pc = "build"
    /\ \E value \in SelValues(isel.blocks[1]),
          a, b \in SelValues(isel.blocks[1]) \cup {NoValue} :
         isel' = [SelAddArg(SelAddArg(branch(isel, 1, value, 2, 3), ParamV(2, 1), a),
                            ParamV(3, 1), b) EXCEPT !.pc = "built"]
    /\ UNCHANGED <<pm, lt, sc, conv, run, opt, ra>>

\* newblock = InsSel().munch_block(block)
MunchBlock ==
    /\ isel.pc = "built"
    /\ \E order \in Orders(ContArgs(isel.blocks[1].cont)) :
         isel' = [pc |-> "selected", err |-> "", blocks |-> isel.blocks,
                  newblock |-> munch_block(isel.blocks[1], order)]
    /\ UNCHANGED <<pm, lt, sc, conv, run, opt, ra>>

SelNext == SelEmit \/ SelRet \/ SelJump \/ SelBranch \/ MunchBlock

SpecSel == SelInit /\ [][SelNext]_vars

\* C27: the SD instructions of the block munch_block produces are one for
\* each STORE of the abstract block, no SD object occurs twice, and they
\* store to the variables of the STOREs in the order of the STOREs.
C27_OneSdPerStoreInOrder ==
    isel.pc = "selected" =>
        LET stores == SelectSeq(isel.blocks[1].insts, LAMBDA x : x.op = "STORE")
            sds    == SelectSeq(isel.newblock.insts, LAMBDA x : x.opcode = "SD")
        IN  /\ Len(sds) = Len(stores)
            /\ \A i, j \in DOMAIN sds : sds[i].id = sds[j].id => i = j
            /\ \A i \in DOMAIN sds :
                 /\ sds[i].args[2].k = "off"
                 /\ sds[i].args[2].reg.opcode = "LA"
                 /\ sds[i].args[2].reg.args[1] = Sym(stores[i].variable)

\* A block with a store to g, then one to h, then one to g again, and a
\* continuation argument, has been selected.
C27_Witness ==
    /\ isel.pc = "selected"
    /\ Len(isel.blocks[1].insts) = 3
    /\ \A i \in 1..3 : isel.blocks[1].insts[i].op = "STORE"
    /\ isel.blocks[1].insts[1].variable = "g"
    /\ isel.blocks[1].insts[2].variable = "h"
    /\ isel.blocks[1].insts[3].variable = "g"
    /\ ContArgs(isel.blocks[1].cont) # {}

\* constants at and beyond the ends of the RV64I immediate and shift fields
TileConsts == {63, 64, 2047, 2048}

\* Inst.const, Inst.binary(op, ...) for the opcodes with an immediate tile
TileInsts(blk) ==
    {Inst("CONST", <<>>, "", c) : c \in TileConsts}
    \cup {Inst(op, <<a, b>>, "", 0) :
             op \in ImmOps, a \in SelValues(blk), b \in SelValues(blk)}

\* block.emit(Inst...)
TileEmit ==
    /\ isel.pc = "build" /\ Len(isel.blocks[1].insts) < MaxInsts
    /\ \E inst \in TileInsts(isel.blocks[1]) : isel' = emit(isel, 1, inst)
    /\ UNCHANGED <<pm, lt, sc, conv, run, opt, ra>>

TileNext == TileEmit \/ SelJump \/ MunchBlock

SpecTile == SelInit /\ [][TileNext]_vars

\* C11: every ADDI immediate the selector emits lies in [-2048, 2047] and
\* every SRAI/SRLI/SLLI shift amount in [0, 63].
C11_ImmediatesFit ==
    isel.pc = "selected" =>
        \A i \in DOMAIN isel.newblock.insts :
            /\ isel.newblock.insts[i].opcode = "ADDI"
                  => isel.newblock.insts[i].args[2].imm \in -2048..2047
            /\ isel.newblock.insts[i].opcode \in {"SRAI", "SRLI", "SLLI"}
                  => isel.newblock.insts[i].args[2].imm \in 0..63

(***************************************************************************)
(* Execution of the abstract block in program order and of the selected    *)
(* instruction list in list order, from the same memory and the same value *)
(* of the block's parameter.                                               *)
(***************************************************************************)

\* the value of the block's parameter in both executions
ParamValue == 7
\* initial contents of a global
MemValues == {10, 20}

RECURSIVE AbsExec(_, _, _)
\* abstract instructions from the i-th on; s is [env, mem]
AbsExec(s, insts, i) ==
    IF i > Len(insts) THEN s
    ELSE With(insts[i], LAMBDA inst :
         AbsExec(CASE inst.op = "CONST" ->
                        [s EXCEPT !.env = (InstV(1, i) :> inst.number) @@ @]
                   [] inst.op = "LOAD" ->
                        [s EXCEPT !.env = (InstV(1, i) :> s.mem[inst.variable]) @@ @]
                   [] inst.op = "ADD" ->
                        [s EXCEPT !.env = (InstV(1, i) :>
                            Eval(s.env, inst.args[1]) + Eval(s.env, inst.args[2])) @@ @]
                   [] inst.op = "STORE" ->
                        [s EXCEPT !.mem[inst.variable] = Eval(s.env, inst.args[1])],
                 insts, i + 1))

\* the value of an operand of a selected instruction; the value of an
\* instruction that has not been executed is Undefined
RvEval(env, v) ==
    CASE v.k = "imm" -> v.imm
      [] v.k = "param" -> ParamValue
      [] v.k = "rv" -> IF v.id \in DOMAIN env THEN env[v.id] ELSE Undefined
      [] OTHER -> Undefined

\* the symbol an Off operand addresses, "" when its register holds none
RvAddr(env, v) ==
    IF v.reg.id \in DOMAIN env /\ env[v.reg.id] \in SelVars THEN env[v.reg.id] ELSE ""

RECURSIVE RvExec(_, _, _)
\* selected instructions from the i-th on; s is [env, mem]
RvExec(s, insts, i) ==
    IF i > Len(insts) THEN s
    ELSE With(insts[i], LAMBDA inst :
         RvExec(CASE inst.opcode = "LI" ->
                       [s EXCEPT !.env = (inst.id :> inst.args[1].imm) @@ @]
                  [] inst.opcode = "LA" ->
                       [s EXCEPT !.env = (inst.id :> inst.args[1].sym) @@ @]
                  [] inst.opcode = "LD" ->
                       [s EXCEPT !.env = (inst.id :>
                           IF RvAddr(s.env, inst.args[1]) = "" THEN Undefined
                           ELSE s.mem[RvAddr(s.env, inst.args[1])]) @@ @]
                  [] inst.opcode = "SD" ->
                       IF RvAddr(s.env, inst.args[2]) = "" THEN s
                       ELSE [s EXCEPT !.mem[RvAddr(s.env, inst.args[2])] =
                                          RvEval(s.env, inst.args[1])]
                  [] inst.opcode = "ADDI" ->
                       [s EXCEPT !.env = (inst.id :>
                           IF RvEval(s.env, inst.args[1]) = Undefined THEN Undefined
                           ELSE RvEval(s.env, inst.args[1]) + inst.args[2].imm) @@ @]
                  [] inst.opcode = "ADD" ->
                       [s EXCEPT !.env = (inst.id :>
                           IF Undefined \in {RvEval(s.env, inst.args[1]),
                                             RvEval(s.env, inst.args[2])}
                           THEN Undefined
                           ELSE RvEval(s.env, inst.args[1]) + RvEval(s.env, inst.args[2]))
                           @@ @],
                insts, i + 1))

\* the abstract execution starts with the parameter bound and memory mem
ExecStart(mem) == [env |-> (ParamV(1, 1) :> ParamValue), mem |-> mem]

\* same final memory, same continuation arguments, same branch value
SameBehaviour(blk, new, mem) ==
    With(AbsExec(ExecStart(mem), blk.insts, 1), LAMBDA a :
    With(RvExec([env |-> <<>>, mem |-> mem], new.insts, 1), LAMBDA r :
         /\ a.mem = r.mem
         /\ \A e \in DOMAIN blk.cont.edges : \A p \in DOMAIN blk.cont.edges[e].args :
               Eval(a.env, blk.cont.edges[e].args[p]) = RvEval(r.env, new.cont.edges[e].args[p])
         /\ blk.cont.kind = "branch" => Eval(a.env, blk.cont.value) = RvEval(r.env, new.cont.value)))

\* the instructions an operand refers to
RvUses(v) ==
    CASE v.k = "rv" -> {v}
      [] v.k = "off" -> {v.reg}
      [] OTHER -> {}

\* every instruction operand, continuation argument and branch value that is
\* an instruction is in insts, operands strictly before their users
WellOrdered(new) ==
    /\ \A i \in DOMAIN new.insts : \A a \in DOMAIN new.insts[i].args :
          \A d \in RvUses(new.insts[i].args[a]) :
            \E j \in 1..(i - 1) : new.insts[j] = d
    /\ \A e \in DOMAIN new.cont.edges : \A p \in DOMAIN new.cont.edges[e].args :
          \A d \in RvUses(new.cont.edges[e].args[p]) : d \in Range(new.insts)
    /\ \A d \in RvUses(new.cont.value) : d \in Range(new.insts)

\* C5: the instruction list munch_block produced computes, from any initial
\* memory, the same final globals, continuation arguments and branch value
\* as the abstract block executed in program order (stated for the lists
\* that define every value before its use, whose execution reads no
\* undefined value).
C5_SelectedBlockEquivalent ==
    (isel.pc = "selected" /\ WellOrdered(isel.newblock)) =>
        \A mem \in [SelVars -> MemValues] :
            SameBehaviour(isel.blocks[1], isel.newblock, mem)

\* C6: in the block munch_block produced every instruction operand, every
\* continuation argument and the branch value that is an instruction is in
\* insts, operands strictly before the instruction that uses them.
C6_DefinedBeforeUse ==
    isel.pc = "selected" => WellOrdered(isel.newblock)

-----------------------------------------------------------------------------
(***************************************************************************)
(* dom.py: LengauerTarjan._graph and LengauerTarjan.splitcrit on a         *)
(* procedure of NBlocks blocks.  Block b has b - 1 parameters; the blocks  *)
(* are given their continuations in order, every edge carrying an argument *)
(* for every parameter of its target, then the graph is made and split.    *)
(* Block 1 is proc.blocks[0], the root.                                    *)
(***************************************************************************)

NBlocks == 3

\* the parameters block b is made with
SplitParams(b) == b - 1

RECURSIVE AddArgs(_, _, _, _)
\* block.add_arg(p, value) for the parameters of target t from the i-th on;
\* the value passed for the i-th parameter is the i-th value of block b
AddArgs(st, b, t, i) ==
    IF i > st.blocks[t].params THEN st
    ELSE AddArgs(add_arg(st, b, ParamV(t, i), InstV(b, i)), b, t, i + 1)

RECURSIVE graphGo(_, _)
\* the blocks go() visits: S and everything reached from S along the targets
\* of the continuations
graphGo(blocks, S) ==
    With(S \cup {blocks[b].cont.edges[e].target :
                    <<b, e>> \in {be \in S \X (1..2) : be[2] \in DOMAIN blocks[be[1]].cont.edges}},
         LAMBDA T : IF T = S THEN S ELSE graphGo(blocks, T))

\* LengauerTarjan._graph: Node(block, index) for every block; children and
\* preds are filled in for the nodes go() visits from nodes[0]
graph(blocks) ==
    [b \in DOMAIN blocks |->
        IF b \in graphGo(blocks, {1})
        THEN [children |-> [e \in DOMAIN blocks[b].cont.edges |->
                               blocks[b].cont.edges[e].target],
              preds |-> blocks[b].preds]
        ELSE [children |-> <<>>, preds |-> <<>>]]

\* splitcrit, lines 50-73: the edge i of v to u is given the new block and
\* the new node Len(s.blocks) + 1
split(s, v, i, u) ==
    With(Len(s.blocks) + 1, LAMBDA w :
    With(s.blocks[v].cont.edges[i], LAMBDA edge :
         IF \E j \in 1..s.blocks[u].params : j \notin DOMAIN edge.args
         THEN [s EXCEPT !.err = "KeyError"]
         ELSE IF IndexOf(s.nodes[u].preds, v, 1) = 0
                 \/ IndexOf(s.blocks[v].succs, u, 1) = 0
                 \/ IndexOf(s.blocks[u].preds, v, 1) = 0
         THEN [s EXCEPT !.err = "ValueError"]
         ELSE [s EXCEPT
                 !.blocks = Append(@,
                     [Block("_split") EXCEPT
                        !.params = s.blocks[u].params,
                        !.cont = [kind |-> "jump", value |-> NoValue,
                                  edges |-> <<[target |-> u,
                                               args |-> [j \in 1..s.blocks[u].params |->
                                                            ParamV(w, j)]]>>],
                        !.preds = <<v>>,
                        !.succs = <<u>>]),
                 !.blocks[v].cont.edges[i] =
                     [target |-> w,
                      args |-> [j \in 1..s.blocks[u].params |-> edge.args[j]]],
                 !.nodes = Append(@, [children |-> <<u>>, preds |-> <<v>>]),
                 !.nodes[u].preds[IndexOf(s.nodes[u].preds, v, 1)] = w,
                 !.nodes[v].children[i] = w,
                 !.blocks[v].succs[IndexOf(s.blocks[v].succs, u, 1)] = w,
                 !.blocks[u].preds[IndexOf(s.blocks[u].preds, v, 1)] = w]))

RECURSIVE splitcrit(_, _, _)
\* LengauerTarjan.splitcrit: for v in self.nodes (the nodes appended on the
\* way included), for i, u in enumerate(v.children)
splitcrit(s, v, i) ==
    IF s.err # "" \/ v > Len(s.nodes) THEN s
    ELSE IF Len(s.nodes[v].children) <= 1 \/ i > Len(s.nodes[v].children)
    THEN splitcrit(s, v + 1, 1)
    ELSE IF Len(s.nodes[s.nodes[v].children[i]].preds) <= 1
    THEN splitcrit(s, v, i + 1)
    ELSE splitcrit(split(s, v, i, s.nodes[v].children[i]), v, i + 1)

\* Block() for each block of the procedure, with its parameters
SplitInit ==
    /\ sc = [pc |-> "build", err |-> "", cur |-> 1,
             blocks |-> [b \in 1..NBlocks |-> [Block("b") EXCEPT !.params = SplitParams(b)]],
             nodes |-> <<>>, before |-> <<>>]
    /\ pm = Idle /\ lt = Idle /\ isel = Idle /\ conv = Idle /\ run = Idle
    /\ opt = Idle /\ ra = Idle

\* the next block is the one to be given its continuation
Built(st) == [st EXCEPT !.cur = @ + 1]

\* block.ret()
SplitRet ==
    /\ sc.pc = "build" /\ sc.cur <= NBlocks
    /\ sc' = Built(ret(sc, sc.cur))
    /\ UNCHANGED <<pm, lt, isel, conv, run, opt, ra>>

\* block.jump(t) and the arguments of the edge
SplitJump ==
    /\ sc.pc = "build" /\ sc.cur <= NBlocks
    /\ \E t \in 1..NBlocks :
         sc' = Built(AddArgs(jump(sc, sc.cur, t), sc.cur, t, 1))
    /\ UNCHANGED <<pm, lt, isel, conv, run, opt, ra>>

\* block.branch(value, t, u) and the arguments of the two edges
SplitBranch ==
    /\ sc.pc = "build" /\ sc.cur <= NBlocks
    /\ \E t, u \in 1..NBlocks :
         sc' = Built(AddArgs(AddArgs(branch(sc, sc.cur, NoValue, t, u), sc.cur, t, 1),
                             sc.cur, u, 1))
    /\ UNCHANGED <<pm, lt, isel, conv, run, opt, ra>>

\* lt = LengauerTarjan(proc)
Graph ==
    /\ sc.pc = "build" /\ sc.cur > NBlocks
    /\ sc' = [sc EXCEPT !.pc = "graph", !.nodes = graph(sc.blocks), !.before = sc.blocks]
    /\ UNCHANGED <<pm, lt, isel, conv, run, opt, ra>>

\* lt.splitcrit()
Splitcrit ==
    /\ sc.pc = "graph"
    /\ sc' = Raise([splitcrit(sc, 1, 1) EXCEPT !.pc = "split"])
    /\ UNCHANGED <<pm, lt, isel, conv, run, opt, ra>>

SplitNext == SplitRet \/ SplitJump \/ SplitBranch \/ Graph \/ Splitcrit

SpecSplit == SplitInit /\ [][SplitNext]_vars

\* the edge e of block v is critical in the procedure blocks
Critical(blocks, v, e) ==
    /\ Len(blocks[v].cont.edges) > 1
    /\ Len(blocks[blocks[v].cont.edges[e].target].preds) > 1

\* the edges of the procedure, as pairs <<block, position>>
Edges(blocks) ==
    {ve \in (DOMAIN blocks) \X (1..2) : ve[2] \in DOMAIN blocks[ve[1]].cont.edges}

\* C7: after splitcrit() no edge goes from a block with more than one
\* successor to a block with more than one predecessor.
C7_NoCriticalEdgeLeft ==
    sc.pc = "split" =>
        \A ve \in Edges(sc.blocks) : ~Critical(sc.blocks, ve[1], ve[2])

\* the edge e of v was split: it now goes to a new block w that has the
\* single predecessor v, the single successor u and a parameter for every
\* parameter of u, and v passes to the parameter w forwards to pu the value
\* it passed to pu before
SplitWell(old, new, v, e) ==
    With(old[v].cont.edges[e], LAMBDA oe :
    With(new[v].cont.edges[e].target, LAMBDA w :
         /\ w > Len(old)
         /\ new[w].preds = <<v>> /\ new[w].succs = <<oe.target>>
         /\ new[w].params = old[oe.target].params
         /\ new[w].cont.kind = "jump"
         /\ new[w].cont.edges[1].target = oe.target
         /\ \A pu \in 1..old[oe.target].params :
               /\ pu \in DOMAIN new[w].cont.edges[1].args
               /\ new[w].cont.edges[1].args[pu].k = "param"
               /\ new[w].cont.edges[1].args[pu].b = w
               /\ new[w].cont.edges[1].args[pu].i \in DOMAIN new[v].cont.edges[e].args
               /\ new[v].cont.edges[e].args[new[w].cont.edges[1].args[pu].i] = oe.args[pu]))

\* preds and succs of every block agree with the targets of the continuations
Consistent(blocks) ==
    \A b \in DOMAIN blocks :
        /\ blocks[b].succs = [e \in DOMAIN blocks[b].cont.edges |->
                                 blocks[b].cont.edges[e].target]
        /\ \A p \in DOMAIN blocks :
              Cardinality({j \in DOMAIN blocks[b].preds : blocks[b].preds[j] = p})
                  = Cardinality({e \in DOMAIN blocks[p].cont.edges :
                                    blocks[p].cont.edges[e].target = b})

\* C8: splitcrit() gives every critical edge one new forwarding block of its
\* own, leaves every other edge's target and arguments alone, and leaves
\* preds and succs in agreement with the continuations.
C8_OnlyCriticalEdgesChanged ==
    sc.pc = "split" =>
        /\ \A ve \in Edges(sc.before) :
              IF Critical(sc.before, ve[1], ve[2])
              THEN SplitWell(sc.before, sc.blocks, ve[1], ve[2])
              ELSE sc.blocks[ve[1]].cont.edges[ve[2]] = sc.before[ve[1]].cont.edges[ve[2]]
        /\ Len(sc.blocks) - Len(sc.before)
              = Cardinality({ve \in Edges(sc.before) : Critical(sc.before, ve[1], ve[2])})
        /\ \A ve, vf \in Edges(sc.before) :
              (Critical(sc.before, ve[1], ve[2]) /\ Critical(sc.before, vf[1], vf[2])
               /\ ve # vf)
                  => sc.blocks[ve[1]].cont.edges[ve[2]].target
                         # sc.blocks[vf[1]].cont.edges[vf[2]].target
        /\ Consistent(sc.blocks)

-----------------------------------------------------------------------------
(***************************************************************************)
(* opt/__init__.py: Optimiser.peep_expr and Optimiser.peephole over one     *)
(* abstract block.  Values live in a heap: heap[1] is the block's           *)
(* parameter, every other entry is an instruction; insts lists the ids of  *)
(* block.insts in order.  forwarded = 0 stands for None.                   *)
(***************************************************************************)

\* sa.Inst(opcode, args) and sa.Inst.const(number), not yet forwarded
PObj(op, args, number) ==
    [op |-> op, args |-> args, number |-> number, forwarded |-> 0]

RECURSIVE Value_find(_, _)
\* Value.find: follow forwarded links while the value is an Inst
Value_find(heap, v) ==
    IF heap[v].op = "PARAM" \/ heap[v].forwarded = 0 THEN v
    ELSE Value_find(heap, heap[v].forwarded)

\* Inst.arg(i) (arg_0 is arg(heap, v, 1))
arg(heap, v, i) == Value_find(heap, heap[v].args[i])

\* Block.emit_before(inst, insts)
emit_before(insts, inst, new) ==
    With(IndexOf(insts, inst, 1), LAMBDA index :
         SubSeq(insts, 1, index - 1) \o new \o SubSeq(insts, index, Len(insts)))

\* The instructions built for Div(e1, Const(2)); base is the number of
\* objects that exist already, so the new ones get ids base+1 .. base+5.
Div2Seq(e1, base) ==
    <<PObj("CONST", <<>>, 63),
      PObj("SRL", <<e1, base + 1>>, 0),
      PObj("ADD", <<e1, base + 2>>, 0),
      PObj("CONST", <<>>, 1),
      PObj("SRA", <<base + 3, base + 4>>, 0)>>

\* A faulty variant of DivPow2Seq: the logical shift is by 63 - k.
DivPow2SeqShort(e1, k, base) ==
    <<PObj("CONST", <<>>, k - 1),
      PObj("SRA", <<e1, base + 1>>, 0),
      PObj("CONST", <<>>, 63 - k),
      PObj("SRL", <<base + 2, base + 3>>, 0),
      PObj("ADD", <<e1, base + 4>>, 0),
      PObj("CONST", <<>>, k),
      PObj("SRA", <<base + 5, base + 6>>, 0)>>

\* The instructions built for Div(e1, Const(n)) with k = n.bit_length() - 1
DivPow2Seq(e1, k, base) ==
    <<PObj("CONST", <<>>, k - 1),
      PObj("SRA", <<e1, base + 1>>, 0),
      PObj("CONST", <<>>, 64 - k),
      PObj("SRL", <<base + 2, base + 3>>, 0),
      PObj("ADD", <<e1, base + 4>>, 0),
      PObj("CONST", <<>>, k),
      PObj("SRA", <<base + 5, base + 6>>, 0)>>

\* A faulty variant of forward: the link is not set.
forwardNothing(st, v, value) == [st EXCEPT !.res = FALSE]

\* Value.forward(value): "assert self.forwarded is None", then the link is set
forward(st, v, value) ==
    IF st.heap[v].forwarded # 0
    THEN [st EXCEPT !.err = "AssertionError", !.res = TRUE]
    ELSE [st EXCEPT !.heap[v].forwarded = value, !.res = FALSE]

\* A faulty variant of replace: the link is set on the value itself.
replaceSelf(st, inst, value) == forward(st, inst, value)

\* Value.replace(value) with an existing value: self.find().forward(value)
replace(st, inst, value) == forward(st, Value_find(st.heap, inst), value)

\* One rewriting case of peep_expr: build the instructions new, emit the
\* first nemit of them before inst, replace inst by the last, return False.
Rewrite(st, inst, new, nemit) ==
    With(Len(st.heap), LAMBDA base :
         replace([st EXCEPT !.heap = @ \o new,
                            !.insts = IF nemit = 0 THEN @
                                      ELSE emit_before(@, inst,
                                               [j \in 1..nemit |-> base + j])],
                 inst, base + Len(new)))

\* Optimiser.peep_expr(block, inst): res is the returned flag, err the
\* exception raised.
peep_expr(st, inst) ==
    LET heap == st.heap
        f  == Value_find(heap, inst)
        op == heap[f].op
        e1 == arg(heap, f, 1)
        e2 == arg(heap, f, 2)
        k1 == heap[e1].op = "CONST"
        k2 == heap[e2].op = "CONST"
        n1 == heap[e1].number
        n2 == heap[e2].number
        base == Len(heap)
        \* n & (n - 1) == 0 for n >= 0: zero and the powers of two
        AndPredIsZero(n) == n = 0 \/ \E b \in 0..30 : n = 2^b
        \* n.bit_length() for n >= 0
        bit_length(n) == Cardinality({b \in 0..30 : 2^b <= n})
    IN CASE op = "ADD" /\ k1 /\ k2 ->
                Rewrite(st, inst, <<PObj("CONST", <<>>, n1 + n2)>>, 0)
         [] op = "ADD" /\ k1 /\ ~k2 ->
                Rewrite(st, inst,
                        <<PObj("ADD", <<arg(heap, inst, 2), arg(heap, inst, 1)>>, 0)>>, 0)
         [] op = "ADD" /\ ~k1 /\ k2 /\ n2 = 0 -> replace(st, inst, e1)
         [] op = "MUL" /\ k1 /\ k2 ->
                Rewrite(st, inst, <<PObj("CONST", <<>>, n1 * n2)>>, 0)
         [] op = "MUL" /\ k1 /\ ~k2 ->
                Rewrite(st, inst,
                        <<PObj("MUL", <<arg(heap, inst, 2), arg(heap, inst, 1)>>, 0)>>, 0)
         [] op = "MUL" /\ ~k1 /\ k2 /\ n2 = 0 -> replace(st, inst, e2)
         [] op = "MUL" /\ ~k1 /\ k2 /\ n2 = 1 -> replace(st, inst, e1)
         [] op = "MUL" /\ ~k1 /\ k2 /\ n2 = 2 ->
                Rewrite(st, inst,
                        <<PObj("CONST", <<>>, 1), PObj("SLL", <<e1, base + 1>>, 0)>>, 1)
         [] op = "DIV" /\ k1 /\ k2 /\ n2 # 0 ->
                Rewrite(st, inst, <<PObj("CONST", <<>>, n1 \div n2)>>, 0)
         [] op = "DIV" /\ ~(k1 /\ n2 # 0) /\ k2 /\ n2 = 2 ->
                Rewrite(st, inst, Div2Seq(e1, base), 4)
         [] op = "DIV" /\ ~(k1 /\ n2 # 0) /\ k2 /\ n2 = 3 ->
                [st EXCEPT !.err = "TypeError", !.res = TRUE]
         [] op = "DIV" /\ ~(k1 /\ n2 # 0) /\ k2 /\ n2 \notin {2, 3}
                       /\ AndPredIsZero(n2) ->
                Rewrite(st, inst, DivPow2Seq(e1, bit_length(n2) - 1, base), 6)
         [] OTHER -> [st EXCEPT !.res = TRUE]

\* A faulty variant of peepWhile: peep_expr is called once per position.
peepWhileOnce(st, i) == peep_expr(st, st.insts[i])

RECURSIVE peepWhile(_, _)
\* peephole: result = False; while not result: result = peep_expr(block,
\* block.insts[i])
peepWhile(st, i) ==
    With(peep_expr(st, st.insts[i]), LAMBDA r :
         IF r.res THEN r ELSE peepWhile(r, i))

RECURSIVE peepLoop(_, _)
\* peephole: for i, inst in enumerate(block.insts), over the list as it grows
peepLoop(st, i) ==
    IF st.err # "" \/ i > Len(st.insts) THEN st
    ELSE peepLoop(peepWhile(st, i), i + 1)

\* Optimiser.peephole() on the one block
peephole(st) == peepLoop(st, 1)

\* sa.Block() with one parameter
PeepInit ==
    /\ opt = [pc |-> "build", err |-> "", res |-> TRUE,
              heap |-> <<PObj("PARAM", <<>>, 0)>>, insts |-> <<>>,
              built |-> <<>>, first |-> <<>>]
    /\ pm = Idle /\ lt = Idle /\ sc = Idle /\ isel = Idle /\ conv = Idle
    /\ run = Idle /\ ra = Idle

\* block.emit(Inst.const(c)) or block.emit(Inst.binary(op, a, b)) with a and b
\* among the parameter and the instructions emitted so far
PeepEmit ==
    /\ opt.pc = "build" /\ Len(opt.insts) < MaxInsts
    /\ \E o \in {PObj("CONST", <<>>, c) : c \in {0, 1, 2, 3, 4}}
             \cup {PObj(op, <<a, b>>, 0) :
                      op \in {"ADD", "SUB", "MUL", "DIV", "SLT"},
                      a \in DOMAIN opt.heap, b \in DOMAIN opt.heap} :
          opt' = [opt EXCEPT !.heap = Append(@, o),
                             !.insts = Append(@, Len(opt.heap) + 1)]
    /\ UNCHANGED <<pm, lt, sc, isel, conv, run, ra>>

\* the first Optimiser.peephole(); built keeps the block as it was written
Peephole ==
    /\ opt.pc = "build" /\ opt.insts # <<>>
    /\ opt' = With(peephole(opt), LAMBDA s :
                   [s EXCEPT !.pc = "peeped",
                             !.built = [heap |-> opt.heap, insts |-> opt.insts],
                             !.first = [heap |-> s.heap, insts |-> s.insts]])
    /\ UNCHANGED <<pm, lt, sc, isel, conv, run, ra>>

\* a second Optimiser.peephole() on the block the first one left
PeepholeAgain ==
    /\ opt.pc = "peeped" /\ opt.err = ""
    /\ opt' = [peephole(opt) EXCEPT !.pc = "again"]
    /\ UNCHANGED <<pm, lt, sc, isel, conv, run, ra>>

PeepNext == PeepEmit \/ Peephole \/ PeepholeAgain

\* the most objects a run may hold before it is cut off; larger than any run
\* of a block of MaxInsts instructions needs
MaxHeap == 40

\* peephole() taken one call of peep_expr at a time: i is the position of
\* "for i, inst in enumerate(block.insts)".
PeepStart ==
    /\ opt.pc = "build" /\ opt.insts # <<>>
    /\ opt' = [pc |-> "run", err |-> "", res |-> FALSE, heap |-> opt.heap,
               insts |-> opt.insts, i |-> 1,
               built |-> [heap |-> opt.heap, insts |-> opt.insts]]
    /\ UNCHANGED <<pm, lt, sc, isel, conv, run, ra>>

\* result = self.peep_expr(block, block.insts[i]); on True the for loop goes
\* on to the next position of the list as it is now, or ends.  No more
\* than MaxHeap objects are created.
PeepStep ==
    /\ opt.pc = "run" /\ Len(opt.heap) <= MaxHeap
    /\ opt' = With(peep_expr(opt, opt.insts[opt.i]), LAMBDA r :
                   IF r.err # "" THEN [r EXCEPT !.pc = "error"]
                   ELSE IF ~r.res THEN r
                   ELSE IF opt.i >= Len(r.insts) THEN [r EXCEPT !.pc = "done"]
                   ELSE [r EXCEPT !.i = @ + 1])
    /\ UNCHANGED <<pm, lt, sc, isel, conv, run, ra>>

PeepStepNext == PeepEmit \/ PeepStart \/ PeepStep

SpecPeepStep == PeepInit /\ [][PeepStepNext]_vars

\* peep_expr calls follow one another without pause until peephole returns
SpecPeepStepFair == SpecPeepStep /\ WF_vars(PeepStep)

SpecPeep == PeepInit /\ [][PeepNext]_vars

\* C12: a second peephole() on a block the first one processed changes
\* nothing: no object is created, no forwarded link is set, and the block's
\* insts list is the one the first run left.
C12_SecondRunFixedPoint ==
    opt.pc = "again" =>
        /\ opt.err = ""
        /\ opt.heap = opt.first.heap
        /\ opt.insts = opt.first.insts

\* A second run finished on a block in which the first run both inserted
\* instructions and forwarded an instruction of the block as written.
C12_Witness ==
    /\ opt.pc = "again" /\ opt.err = ""
    /\ Len(opt.first.insts) > Len(opt.built.insts)
    /\ \E i \in Range(opt.built.insts) : opt.first.heap[i].forwarded # 0
    /\ opt.heap = opt.first.heap

RECURSIVE chainEnd(_, _, _)
\* the value at the end of the forwarded links from v, or 0 if none is
\* met within left links
chainEnd(heap, v, left) ==
    IF heap[v].forwarded = 0 THEN v
    ELSE IF left = 0 THEN 0
    ELSE chainEnd(heap, heap[v].forwarded, left - 1)

\* C23: at every point of a run of peephole(), no forward() has found its
\* slot taken (the assert has not failed), the forwarded links form no
\* cycle, and find() of every value ends at a value whose forwarded slot is
\* empty, or at a Param.
C23_ForwardedChainsEnd ==
    opt.pc \in {"run", "done", "error"} =>
        /\ opt.err # "AssertionError"
        /\ \A v \in DOMAIN opt.heap :
             /\ chainEnd(opt.heap, v, Len(opt.heap)) # 0
             /\ With(Value_find(opt.heap, v), LAMBDA f :
                     opt.heap[f].forwarded = 0 \/ opt.heap[f].op = "PARAM")

\* A finished run in which an instruction of the block as written was
\* forwarded to a new instruction that was then forwarded itself.
C23_Witness ==
    /\ opt.pc = "done"
    /\ \E i \in Range(opt.built.insts) :
          /\ opt.heap[i].forwarded > Len(opt.built.heap)
          /\ opt.heap[opt.heap[i].forwarded].forwarded # 0

FoldOps == {"ADD", "SUB", "MUL", "DIV", "SLT", "SGT", "SLE", "SGE", "SEQ", "SNE"}

\* C13: after peephole(), no instruction of the block, looked up through
\* find(), is an arithmetic or comparison operation with two CONST operands
\* (a DIV by CONST 0 excepted).
C13_ConstOperandsFolded ==
    (opt.pc = "peeped" /\ opt.err = "") =>
        \A i \in Range(opt.insts) :
            With(Value_find(opt.heap, i), LAMBDA f :
                 ~ /\ opt.heap[f].op \in FoldOps
                   /\ opt.heap[arg(opt.heap, f, 1)].op = "CONST"
                   /\ opt.heap[arg(opt.heap, f, 2)].op = "CONST"
                   /\ opt.heap[f].op = "DIV"
                         => opt.heap[arg(opt.heap, f, 2)].number # 0)

\* the instructions of the block as written that are DIV x, CONST n
DivBy(n) ==
    {i \in Range(opt.built.insts) :
        /\ opt.built.heap[i].op = "DIV"
        /\ opt.built.heap[opt.built.heap[i].args[2]] = PObj("CONST", <<>>, n)}

\* C14: after peephole(), find() of every DIV x, CONST 1 is what find() of
\* x is.
C14_DivByOneIsOperand ==
    (opt.pc = "peeped" /\ opt.err = "") =>
        \A i \in DivBy(1) :
            Value_find(opt.heap, i)
                = Value_find(opt.heap, opt.built.heap[i].args[1])

\* C15: after peephole(), find() of every DIV x, CONST 0 is a CONST 0.
C15_DivByZeroIsZero ==
    (opt.pc = "peeped" /\ opt.err = "") =>
        \A i \in DivBy(0) :
            With(Value_find(opt.heap, i), LAMBDA f :
                 opt.heap[f].op = "CONST" /\ opt.heap[f].number = 0)

-----------------------------------------------------------------------------
(***************************************************************************)
(* The value the division sequences of peep_expr compute on a 64-bit        *)
(* machine.  A 64-bit word is four 16-bit limbs, the least significant      *)
(* first; bit 15 of the fourth limb is the sign.                            *)
(***************************************************************************)

\* x + y + c modulo 2^64, limb by limb
Add64(x, y, c) ==
    With(x[1] + y[1] + c, LAMBDA s1 :
    With(x[2] + y[2] + (s1 \div 65536), LAMBDA s2 :
    With(x[3] + y[3] + (s2 \div 65536), LAMBDA s3 :
         <<s1 % 65536, s2 % 65536, s3 % 65536,
           (x[4] + y[4] + (s3 \div 65536)) % 65536>>)))

\* x shifted right by s bits, 0 <= s <= 63, vacated limbs filled with fill
Shift64(x, s, fill) ==
    LET limb(j) == IF j <= 4 THEN x[j] ELSE fill
    IN [i \in 1..4 |->
          (limb(i + (s \div 16)) \div 2^(s % 16))
              + (limb(i + (s \div 16) + 1) % 2^(s % 16)) * 2^(16 - (s % 16))]

RECURSIVE Eval64(_, _, _)
\* the words the instructions of heap hold when the parameter holds x, in
\* heap order (operands come before their users): CONST is its number in
\* two's complement, SRL/SRA shift by the low six bits of their second
\* operand, ADD wraps.  ws holds the words found so far.
Eval64(heap, x, ws) ==
    IF Len(ws) = Len(heap) THEN ws
    ELSE With(heap[Len(ws) + 1], LAMBDA o :
         Eval64(heap, x, Append(ws,
             CASE o.op = "PARAM" -> x
               [] o.op = "CONST" ->
                      <<o.number % 65536, (o.number \div 65536) % 65536,
                        IF o.number < 0 THEN 65535 ELSE 0,
                        IF o.number < 0 THEN 65535 ELSE 0>>
               [] o.op = "SRL" ->
                      Shift64(ws[o.args[1]], ws[o.args[2]][1] % 64, 0)
               [] o.op = "SRA" ->
                      Shift64(ws[o.args[1]], ws[o.args[2]][1] % 64,
                              IF ws[o.args[1]][4] >= 32768 THEN 65535 ELSE 0)
               [] o.op = "ADD" -> Add64(ws[o.args[1]], ws[o.args[2]], 0))))

\* the limbs the test words are made of
Limbs == {0, 1, 32767, 32768, 43690, 65535}

\* a block parameter holding any of the test words
DivInit ==
    /\ opt \in {[pc |-> "word", x |-> x] : x \in [1..4 -> Limbs]}
    /\ pm = Idle /\ lt = Idle /\ sc = Idle /\ isel = Idle /\ conv = Idle
    /\ run = Idle /\ ra = Idle

\* the sequence peep_expr builds for Div(e1, Const(2^k)), e1 the parameter,
\* run on the word
DivByPow2 ==
    /\ opt.pc = "word"
    /\ \E k \in 1..62 :
          opt' = [pc |-> "divided", x |-> opt.x, k |-> k, seq |-> "pow2",
                  r |-> Eval64(<<PObj("PARAM", <<>>, 0)>> \o DivPow2Seq(1, k, 1),
                               opt.x, <<>>)[8]]
    /\ UNCHANGED <<pm, lt, sc, isel, conv, run, ra>>

\* the sequence peep_expr builds for Div(e1, Const(2)) run on the word
DivBy2 ==
    /\ opt.pc = "word"
    /\ opt' = [pc |-> "divided", x |-> opt.x, k |-> 1, seq |-> "two",
               r |-> Eval64(<<PObj("PARAM", <<>>, 0)>> \o Div2Seq(1, 1),
                            opt.x, <<>>)[6]]
    /\ UNCHANGED <<pm, lt, sc, isel, conv, run, ra>>

DivNext == DivByPow2 \/ DivBy2

SpecDiv == DivInit /\ [][DivNext]_vars

\* -x modulo 2^64
Neg64(x) == Add64([i \in 1..4 |-> 65535 - x[i]], <<0, 0, 0, 0>>, 1)

\* x divided by 2^k, rounded toward zero: the magnitude of x shifted right
\* by k, with the sign of x
TruncDiv(x, k) ==
    IF x[4] < 32768 THEN Shift64(x, k, 0)
    ELSE Neg64(Shift64(Neg64(x), k, 0))

\* C16: for every 64-bit x and 1 <= k <= 62 the sequence for DIV x, 2^k
\* computes x / 2^k rounded toward zero, and so does the x/2 sequence for
\* k = 1.
C16_DivSequencesTruncate ==
    opt.pc = "divided" => opt.r = TruncDiv(opt.x, opt.k)

\* A negative x divided by the general sequence, k >= 2, where rounding
\* toward zero and toward minus infinity differ.
C16_Witness ==
    /\ opt.pc = "divided" /\ opt.seq = "pow2" /\ opt.k >= 2
    /\ opt.x[4] >= 32768
    /\ opt.r = TruncDiv(opt.x, opt.k)
    /\ opt.r # Shift64(opt.x, opt.k, 65535)

-----------------------------------------------------------------------------
\* the moves form one cycle: some order of them chains every destination to
\* the next move's source and the last destination to the first source, over
\* pairwise distinct registers
SingleCycle(moves) ==
    /\ Len(moves) >= 2
    /\ DistinctDsts(moves)
    /\ \E o \in Orders(DOMAIN moves) :
          \A i \in DOMAIN o :
              moves[o[i]][2] = moves[o[(i % Len(moves)) + 1]][1]

\* C18: for a move list that is a single cycle of n >= 2 registers,
\* parallelmoves returns n + 1 moves of which exactly one writes tmp and
\* exactly one reads tmp; for n = 2 they are: save a register r to tmp, move
\* the other register into r, move tmp into the other register.
C18_CycleUsesTmpOnce ==
    (pm.pc \in {"exec", "done"} /\ SingleCycle(pm.moves)) =>
        /\ Len(pm.results) = Len(pm.moves) + 1
        /\ Cardinality({k \in DOMAIN pm.results : pm.results[k][2] = pm.tmp}) = 1
        /\ Cardinality({k \in DOMAIN pm.results : pm.results[k][1] = pm.tmp}) = 1
        /\ Len(pm.moves) = 2 =>
              \E r, o \in Regs :
                  /\ r # o
                  /\ pm.results = <<<<r, pm.tmp>>, <<o, r>>, <<pm.tmp, o>>>>

\* parallelmoves has returned four moves for a three-register cycle.
C18_Witness ==
    /\ pm.pc = "exec" /\ SingleCycle(pm.moves)
    /\ Len(pm.moves) = 3
    /\ Len(pm.results) = 4

-----------------------------------------------------------------------------
(***************************************************************************)
(* regalloc.py: RegisterAllocator.allocate and parmove over one edge.       *)
(* Block v (one parameter) jumps to block u (two parameters), which         *)
(* returns; v is the entry and dominates u.  A value of a block is a        *)
(* number: the parameters are 1..nparams, the i-th instruction is           *)
(* nparams + i.  An instruction names the set of assignable values it      *)
(* uses, the registers inside its Off operands, and whether it has an      *)
(* output; args maps each parameter of u to the value of v the edge        *)
(* passes.  In u, the value k of v is written -k.                           *)
(***************************************************************************)

RaBlock(nparams) == [nparams |-> nparams, insts |-> <<>>, args |-> <<>>]

RaValues(blk) == 1..(blk.nparams + Len(blk.insts))

\* the values of blk an operand may name: the parameters and the
\* instructions with an output
RaOutputs(blk) ==
    {x \in RaValues(blk) : x > blk.nparams => blk.insts[x - blk.nparams].out}

\* r.Inst(opcode, args): uses are the args with assignable = True (Inst,
\* Param), offs the registers of the Off args (Off.assignable is False)
RaInst(uses, offs, out) == [uses |-> uses, offs |-> offs, out |-> out]

\* allocate.go: last_use[val] as a position: the instruction that uses val
\* last, Len(insts) + 1 for block.cont, 0 when val is not in last_use
last_use(blk, val) ==
    IF val \in Range(blk.args) THEN Len(blk.insts) + 1
    ELSE With({i \in DOMAIN blk.insts : val \in blk.insts[i].uses}, LAMBDA uses :
         IF uses = {} THEN 0 ELSE CHOOSE i \in uses : \A j \in uses : j <= i)

RECURSIVE allocGo(_, _, _, _)
\* allocate.go: the second loop over block.insts, from the i-th on; returns
\* [err, assignment].  assignment[arg] of a value that is not a key of this
\* block's assignment raises KeyError.
allocGo(blk, i, assignment, assigned) ==
    IF i > Len(blk.insts) THEN [err |-> "", assignment |-> assignment]
    ELSE With({a \in blk.insts[i].uses : last_use(blk, a) = i}, LAMBDA dying :
         IF \E a \in dying : a \notin DOMAIN assignment
         THEN [err |-> "KeyError", assignment |-> assignment]
         ELSE With(assigned \ {assignment[a] : a \in dying}, LAMBDA live :
              IF ~blk.insts[i].out
              THEN allocGo(blk, i + 1, assignment, live)
              ELSE With(CHOOSE c \in 0..Cardinality(live) :
                            c \notin live /\ \A d \in 0..(c - 1) : d \in live,
                        LAMBDA b :
                   allocGo(blk, i + 1, ((blk.nparams + i) :> b) @@ assignment,
                           IF last_use(blk, blk.nparams + i) # 0 THEN live \cup {b}
                           ELSE live))))

\* allocate.go(block): self.colours[block], or the exception raised
allocate(blk) ==
    allocGo(blk, 1, [p \in 1..blk.nparams |-> p - 1], 0..(blk.nparams - 1))

\* parmove.do(e, v, u): tmp as passed to parallelmoves, the moves collected
\* and the moves returned
do(args, cv, cu) ==
    LET pairs == [p \in DOMAIN args |-> <<cv[args[p]], cu[p]>>]
        movs == SelectSeq(pairs, LAMBDA m : m[1] # m[2])
        top == {0} \cup {pairs[p][1] : p \in DOMAIN pairs}
                   \cup {pairs[p][2] : p \in DOMAIN pairs}
        tmp == (CHOOSE c \in top : \A d \in top : d <= c) + 1
    IN [tmp |-> tmp, movs |-> movs,
        out |-> IF Len(movs) = 0 THEN <<>> ELSE parallelmoves(movs, tmp)]

RaInit ==
    /\ ra = [pc |-> "v", err |-> "", v |-> RaBlock(1), u |-> RaBlock(2),
             colours |-> <<>>, tmp |-> 0, movs |-> <<>>, out |-> <<>>]
    /\ pm = Idle /\ lt = Idle /\ sc = Idle /\ isel = Idle /\ conv = Idle
    /\ run = Idle /\ opt = Idle

\* v.emit(inst): an instruction using up to two of the values of v so far
RaEmitV ==
    /\ ra.pc = "v" /\ Len(ra.v.insts) < MaxInsts
    /\ \E uses \in {s \in SUBSET RaOutputs(ra.v) : Cardinality(s) <= 2} :
          ra' = [ra EXCEPT !.v.insts = Append(@, RaInst(uses, {}, TRUE))]
    /\ UNCHANGED <<pm, lt, sc, isel, conv, run, opt>>

\* v.cont = Cont.jump(u) with an argument for each parameter of u
RaJump ==
    /\ ra.pc = "v"
    /\ \E args \in [1..ra.u.nparams -> RaOutputs(ra.v)] :
          ra' = [ra EXCEPT !.v.args = args, !.pc = "u"]
    /\ UNCHANGED <<pm, lt, sc, isel, conv, run, opt>>

\* u.emit(inst): at most one instruction in u
RaEmitU ==
    /\ ra.pc = "u" /\ Len(ra.u.insts) < 1
    /\ \E uses \in SUBSET RaOutputs(ra.u) :
          ra' = [ra EXCEPT !.u.insts = Append(@, RaInst(uses, {}, TRUE))]
    /\ UNCHANGED <<pm, lt, sc, isel, conv, run, opt>>

\* RegisterAllocator.allocate(): go(v), then go(u) for the block v
\* dominates; colours[u] is not set when go(u) raises
RaAllocate ==
    /\ ra.pc = "u"
    /\ ra' = With(allocate(ra.v), LAMBDA av :
              With(allocate(ra.u), LAMBDA au :
                   IF au.err # ""
                   THEN [ra EXCEPT !.pc = "error", !.err = au.err,
                                   !.colours = [v |-> av.assignment]]
                   ELSE [ra EXCEPT !.pc = "allocated",
                                   !.colours = [v |-> av.assignment,
                                                u |-> au.assignment]]))
    /\ UNCHANGED <<pm, lt, sc, isel, conv, run, opt>>

\* RegisterAllocator.parmove(): v has one successor, do(v.cont.edges[0], v, u)
RaParmove ==
    /\ ra.pc = "allocated"
    /\ ra' = With(do(ra.v.args, ra.colours.v, ra.colours.u), LAMBDA d :
                  [ra EXCEPT !.pc = "moved", !.tmp = d.tmp, !.movs = d.movs,
                             !.out = d.out])
    /\ UNCHANGED <<pm, lt, sc, isel, conv, run, opt>>

RaNext == RaEmitV \/ RaJump \/ RaEmitU \/ RaAllocate \/ RaParmove

SpecRA == RaInit /\ [][RaNext]_vars

\* Two blocks as above, u with one parameter, for blocks with loads and
\* stores and with uses in u of values of v.
AllocInit ==
    /\ ra = [pc |-> "v", err |-> "", v |-> RaBlock(1), u |-> RaBlock(1),
             colours |-> <<>>, tmp |-> 0, movs |-> <<>>, out |-> <<>>]
    /\ pm = Idle /\ lt = Idle /\ sc = Idle /\ isel = Idle /\ conv = Idle
    /\ run = Idle /\ opt = Idle

\* v.emit of a load, LD Off(a, Imm(0)), or of a store, SD x, Off(a, Imm(0))
\* (Inst.output is False for SD)
RaEmitMem ==
    /\ ra.pc = "v" /\ Len(ra.v.insts) < MaxInsts
    /\ \E a \in RaOutputs(ra.v) :
          \E inst \in {RaInst({}, {a}, TRUE)}
                         \cup {RaInst({x}, {a}, FALSE) : x \in RaOutputs(ra.v)} :
             ra' = [ra EXCEPT !.v.insts = Append(@, inst)]
    /\ UNCHANGED <<pm, lt, sc, isel, conv, run, opt>>

\* u.emit of an instruction that uses a value defined in v
RaEmitUse ==
    /\ ra.pc = "u" /\ Len(ra.u.insts) < 1
    /\ \E k \in RaOutputs(ra.v), local \in SUBSET RaOutputs(ra.u) :
          ra' = [ra EXCEPT !.u.insts = Append(@, RaInst({-k} \cup local, {}, TRUE))]
    /\ UNCHANGED <<pm, lt, sc, isel, conv, run, opt>>

\* u.cont = Cont.branch(k, ...) on a value defined in v: k is in cont.uses
RaBranchU ==
    /\ ra.pc = "u" /\ ra.u.args = <<>>
    /\ \E k \in RaOutputs(ra.v) : ra' = [ra EXCEPT !.u.args = <<-k>>]
    /\ UNCHANGED <<pm, lt, sc, isel, conv, run, opt>>

AllocNext ==
    \/ RaEmitV \/ RaEmitMem \/ RaJump \/ RaEmitU \/ RaEmitUse \/ RaBranchU
    \/ RaAllocate

SpecAlloc == AllocInit /\ [][AllocNext]_vars

\* Live ranges within a block: a parameter is defined at position 0, the
\* i-th instruction at position i; a value is last used by the last
\* instruction that has it as an operand or inside an Off operand, or by
\* the continuation (position Len(insts) + 1) when it is an argument.
RaDef(blk, x) == IF x <= blk.nparams THEN 0 ELSE x - blk.nparams

RaLastUse(blk, x) ==
    IF x \in Range(blk.args) THEN Len(blk.insts) + 1
    ELSE With({i \in DOMAIN blk.insts : x \in blk.insts[i].uses \cup blk.insts[i].offs},
              LAMBDA uses :
         IF uses = {} THEN RaDef(blk, x)
         ELSE CHOOSE i \in uses : \A j \in uses : j <= i)

\* x is defined before y's last use and y before x's last use (an
\* instruction may take the register of an operand that it uses last)
RaOverlap(blk, x, y) ==
    RaDef(blk, x) < RaLastUse(blk, y) /\ RaDef(blk, y) < RaLastUse(blk, x)

\* C28: after allocate(), in block v (every operand a parameter or an
\* earlier instruction of v) no two distinct values whose live ranges
\* overlap have the same colour.
C28_OverlappingValuesDiffer ==
    ra.pc \in {"allocated", "error"} =>
        \A x, y \in DOMAIN ra.colours.v :
            (x # y /\ RaOverlap(ra.v, x, y)) => ra.colours.v[x] # ra.colours.v[y]

\* the values of v that the instructions and the continuation of u use
RaForeign(blk) ==
    {-a : a \in {a \in Range(blk.args)
                        \cup UNION {blk.insts[i].uses : i \in DOMAIN blk.insts} :
                    a < 0}}

\* C29: when allocate() processes u, a block that uses a value k of the
\* block v that strictly dominates it, the lookup of k's colour succeeds, and
\* no value of u that is live while k is still live in u has k's colour.
C29_DominatingValuesColoured ==
    (ra.pc \in {"allocated", "error"} /\ RaForeign(ra.u) # {}) =>
        /\ ra.pc = "allocated"
        /\ \A k \in RaForeign(ra.u) : \A x \in DOMAIN ra.colours.u :
              RaDef(ra.u, x) < RaLastUse(ra.u, -k)
                  => ra.colours.u[x] # ra.colours.v[k]

\* C17: whenever parmove emits moves for the edge (v, u), the tmp it passes
\* to parallelmoves is larger than every colour of a value of v and every
\* colour of a value of u.
C17_TmpAboveEveryColour ==
    (ra.pc = "moved" /\ ra.out # <<>>) =>
        /\ \A x \in DOMAIN ra.colours.v : ra.tmp > ra.colours.v[x]
        /\ \A x \in DOMAIN ra.colours.u : ra.tmp > ra.colours.u[x]

-----------------------------------------------------------------------------
(***************************************************************************)
(* dom.py: calcdominators(proc).  LengauerTarjan(proc) and splitcrit() are  *)
(* the steps Graph and Splitcrit above; the analysis proper runs on the     *)
(* nodes they leave, node k of the procedure being node k - 1 of the        *)
(* analyser.  calcloops and calclnf compute loop data that result() does    *)
(* not return.                                                              *)
(***************************************************************************)

\* calcdominators from lt.dfs() on: the analyser after calcbackedges, or with
\* err set by the step that raised
calcdominators(nodes) ==
    With(dfs([n \in Nodes |->
                IF n < Len(nodes)
                THEN [i \in DOMAIN nodes[n + 1].children |-> nodes[n + 1].children[i] - 1]
                ELSE <<>>]),
         LAMBDA d :
    With(semidominators(
            [pc |-> "dfs", err |-> "",
             children |-> [n \in Nodes |->
                 IF n < Len(nodes)
                 THEN [i \in DOMAIN nodes[n + 1].children |-> nodes[n + 1].children[i] - 1]
                 ELSE <<>>],
             preds |-> [n \in Nodes |->
                 IF n < Len(nodes)
                 THEN [i \in DOMAIN nodes[n + 1].preds |-> nodes[n + 1].preds[i] - 1]
                 ELSE <<>>],
             dfs |-> d.dfs, parent |-> d.parent, dfsnodes |-> d.dfsnodes,
             ancestor |-> [n \in Nodes |-> n], semi |-> [n \in Nodes |-> n],
             label |-> [n \in Nodes |-> n],
             idom |-> [n \in Nodes |-> NoNode], backedges |-> {},
             loops |-> <<>>, frontier |-> <<>>]),
         LAMBDA s :
         IF s.err # "" THEN s
         ELSE With(idominators(s), LAMBDA i :
                   IF i.err # "" THEN i ELSE calcbackedges(i))))

\* the rest of calcdominators(proc), on a procedure whose nodes the analyser
\* can number
CalcDominators ==
    /\ sc.pc = "split" /\ Len(sc.nodes) <= NNodes
    /\ sc' = With(calcdominators(sc.nodes), LAMBDA a :
                  IF a.err # "" THEN [sc EXCEPT !.pc = "error", !.err = a.err]
                  ELSE [pc |-> "dominators", err |-> "", cur |-> sc.cur,
                        blocks |-> sc.blocks, nodes |-> sc.nodes,
                        before |-> sc.before, result |-> result(a)])
    /\ UNCHANGED <<pm, lt, isel, conv, run, opt, ra>>

DomNext == SplitNext \/ CalcDominators

SpecDom == SplitInit /\ [][DomNext]_vars

\* C19: calcdominators(proc) raises nothing, whether or not every block is
\* reachable from the entry, and its result has an idom, a dom and a frontier
\* entry for every reachable block and every reachable block but the entry
\* in the dtree entry of some block.
C19_CalcDominatorsTotal ==
    /\ sc.pc # "error"
    /\ sc.pc = "dominators" =>
          \A b \in graphGo(sc.blocks, {1}) :
              /\ b - 1 \in DOMAIN sc.result.idom
              /\ b - 1 \in DOMAIN sc.result.dom
              /\ b - 1 \in DOMAIN sc.result.frontier
              /\ b # 1 => \E d \in DOMAIN sc.result.dtree : b - 1 \in sc.result.dtree[d]

=============================================================================
